---- MODULE Spec2Model ----
(***************************************************************************)
(* Flow plugin webview: the request correlator of lib/bridge.ts and the   *)
(* publish orchestrator of App.svelte (startPublish, handleResume,        *)
(* handleCancel, Semaphore), with the publish store and the parts of the  *)
(* API client and of the native side they depend on; and the document    *)
(* extraction of the native side (layer tree, styles, prototype flows,    *)
(* artboard index, image export).                                         *)
(*                                                                         *)
(* JavaScript scheduling: one macrotask (user click, native reply, timer, *)
(* HTTP response) runs at a time; the promise continuations it makes      *)
(* ready run afterwards, in FIFO order, before the next macrotask.  microQ *)
(* is that queue of ready continuations.                                   *)
(***************************************************************************)
EXTENDS Integers, Sequences, FiniteSets, TLC

\* ---------------------------------------------------------------- bounds
NumArtboards == 4      \* artboards of the document, ids 1..NumArtboards
MaxRuns == 3           \* startPublish calls (fresh or resume) in a behaviour
MaxTimeouts == 1       \* correlator timers that fire during publish runs
MaxHttpFaults == 1     \* HTTP calls that fail during publish runs
MaxRequests == 3       \* requests issued by the stand-alone bridge client
NumKeys == 2           \* keys the stand-alone bridge client uses
NumNodes == 4          \* nodes of an extracted document, ids 1..NumNodes

\* ------------------------------------------------------ program constants
CONCURRENCY == 3
maxRetries == 3
DEFAULT_EXPORT_SCALE == 2
MIN_EXPORT_SCALE == 1
MAX_EXPORT_SCALE == 4

Artboards == 1..NumArtboards
Runs == 1..MaxRuns
None == 0

MaxOf(a, b) == IF a >= b THEN a ELSE b

\* A caller is the continuation waiting on one request's promise: the task
\* of artboard a in run r, or the i-th request of the stand-alone client.
NumCallers == MaxOf(MaxRuns * NumArtboards, MaxRequests)
Callers == 1..NumCallers
TaskCaller(r, a) == (r - 1) * NumArtboards + a
CallerRun(c) == ((c - 1) \div NumArtboards) + 1
CallerArt(c) == ((c - 1) % NumArtboards) + 1

MapNames == {"data", "image", "sketch"}

VARIABLES
    \* lib/bridge.ts
    pendingDataRequests,   \* key -> caller of the pending request, or None
    pendingImageRequests,
    pendingSketchUploads,
    futures,               \* caller -> [map, key, state] of its promise
    timers,                \* callers whose timeout timer is armed
    nativeCalls,           \* pluginCall messages the native side has not served
    microQ,                \* ready promise continuations, FIFO
    \* native side
    badData,               \* artboard ids for which extractArtboardData throws
    badRender,             \* artboard ids for which exportArtboardImage throws
    badUpload,             \* revision ids for which uploadCurrentSketchFile throws
    \* stores
    currentView,
    successNav,            \* setTimeout(() => navigateTo('success'), 400) is armed
    selectedArtboardIds,
    selectedVersionId,
    publishState,
    authToken,             \* TRUE while appState holds the credentials
    \* App.svelte
    publishAbort,          \* run whose AbortController is current, or None
    aborted,               \* controllers whose signal is aborted
    runs,                  \* the locals of each startPublish call
    tasks,                 \* <<run, artboard>> -> the upload task's position
    runCount,
    \* network and server
    httpCalls,             \* HTTP requests awaiting their response
    serverUploaded,        \* version -> ids stored by the screens endpoint
    serverComplete,        \* versions finalized
    timeoutsLeft,          \* correlator timers that may still fire in publish runs
    httpFaultsLeft,        \* HTTP calls that may still fail
    \* native side: extraction
    document,              \* sketch.Document.getSelectedDocument()
    artboardMap,           \* _artboardMap: id -> the layer object indexed under it
    cachedDocId,           \* _cachedDocId of extract.js
    cachedDocData,         \* _cachedDocData and _cachedDocId of the handlers
    exportScale,           \* the Flow.exportScale setting
    output                 \* what the extraction calls made so far returned

bridgeVars == <<pendingDataRequests, pendingImageRequests, pendingSketchUploads,
                futures, timers, nativeCalls, microQ>>
nativeVars == <<badData, badRender, badUpload>>
storeVars == <<currentView, successNav, selectedArtboardIds, selectedVersionId, publishState,
               authToken>>
appVars == <<publishAbort, aborted, runs, tasks, runCount>>
netVars == <<httpCalls, serverUploaded, serverComplete, timeoutsLeft, httpFaultsLeft>>
extractVars == <<document, artboardMap, cachedDocId, cachedDocData, exportScale, output>>
vars == <<bridgeVars, nativeVars, storeVars, appVars, netVars, extractVars>>

\* ------------------------------------------------- the state as one value
\* Handlers are written as functions from state to state, so that the calls
\* a handler makes compose in the order the code makes them.
St ==
    [pendingDataRequests |-> pendingDataRequests,
     pendingImageRequests |-> pendingImageRequests,
     pendingSketchUploads |-> pendingSketchUploads,
     futures |-> futures, timers |-> timers, nativeCalls |-> nativeCalls,
     microQ |-> microQ, currentView |-> currentView, successNav |-> successNav,
     publishState |-> publishState, authToken |-> authToken,
     publishAbort |-> publishAbort,
     aborted |-> aborted, runs |-> runs, tasks |-> tasks, runCount |-> runCount,
     httpCalls |-> httpCalls, serverUploaded |-> serverUploaded,
     serverComplete |-> serverComplete, timeoutsLeft |-> timeoutsLeft,
     httpFaultsLeft |-> httpFaultsLeft]

Commit(S) ==
    \E T \in {S} :
        /\ pendingDataRequests' = T.pendingDataRequests
        /\ pendingImageRequests' = T.pendingImageRequests
        /\ pendingSketchUploads' = T.pendingSketchUploads
        /\ futures' = T.futures
        /\ timers' = T.timers
        /\ nativeCalls' = T.nativeCalls
        /\ microQ' = T.microQ
        /\ currentView' = T.currentView
        /\ successNav' = T.successNav
        /\ publishState' = T.publishState
        /\ authToken' = T.authToken
        /\ publishAbort' = T.publishAbort
        /\ aborted' = T.aborted
        /\ runs' = T.runs
        /\ tasks' = T.tasks
        /\ runCount' = T.runCount
        /\ httpCalls' = T.httpCalls
        /\ serverUploaded' = T.serverUploaded
        /\ serverComplete' = T.serverComplete
        /\ timeoutsLeft' = T.timeoutsLeft
        /\ httpFaultsLeft' = T.httpFaultsLeft
        /\ UNCHANGED <<nativeVars, selectedArtboardIds, selectedVersionId, extractVars>>

Enq(S, cont) == [S EXCEPT !.microQ = Append(@, cont)]

\* ------------------------------------------------------------ lib/bridge.ts
Revisions == 1..NumKeys

MapVar(m) ==
    CASE m = "data" -> "pendingDataRequests"
      [] m = "image" -> "pendingImageRequests"
      [] m = "sketch" -> "pendingSketchUploads"

KeysOf(m) == IF m = "sketch" THEN Revisions ELSE Artboards

\* handler name of the pluginCall each request helper makes
HandlerOf(m) ==
    CASE m = "data" -> "extractArtboardData"
      [] m = "image" -> "exportArtboard"
      [] m = "sketch" -> "uploadSketchFile"

MapOfHandler(h) ==
    CASE h = "extractArtboardData" -> "data"
      [] h = "exportArtboard" -> "image"
      [] h = "uploadSketchFile" -> "sketch"

FutureCont(c) == [kind |-> "future", who |-> c, outcome |-> "none"]

\* resolve() / reject() of the promise of caller c: only a pending promise
\* settles, and the continuation awaiting it becomes ready
Settle(S, c, st) ==
    IF c # None /\ S.futures[c].state = "pending"
    THEN Enq([S EXCEPT !.futures[c].state = st], FutureCont(c))
    ELSE S

RejectSupersededAsTimeout(S, existing) == Settle(S, existing, "timeout")

\* existing.reject(new Error('Superseded by new request'))
RejectSuperseded(S, existing) == Settle(S, existing, "superseded")

RequestWithoutSupersede(S, m, key, c) ==
    [S EXCEPT !.futures[c] = [map |-> m, key |-> key, state |-> "pending"],
              !.timers = @ \cup {c},
              ![MapVar(m)][key] = c,
              !.nativeCalls = Append(@, [handler |-> HandlerOf(m), key |-> key,
                                         issuer |-> c])]

\* Request without clearTimeout(existing.timer)
RequestKeepTimer(S, m, key, c) ==
    LET existing == S[MapVar(m)][key]
        S1 == IF existing # None
              THEN RejectSuperseded(S, existing)
              ELSE S
    IN  [S1 EXCEPT !.futures[c] = [map |-> m, key |-> key, state |-> "pending"],
                   !.timers = @ \cup {c},
                   ![MapVar(m)][key] = c,
                   !.nativeCalls = Append(@, [handler |-> HandlerOf(m), key |-> key,
                                              issuer |-> c])]

\* requestArtboardData / requestArtboardImage / requestSketchFileUpload:
\* the promise executor, run synchronously by caller c
Request(S, m, key, c) ==
    LET existing == S[MapVar(m)][key]
        S1 == IF existing # None
              THEN RejectSuperseded([S EXCEPT !.timers = @ \ {existing}], existing)
              ELSE S
    IN  [S1 EXCEPT !.futures[c] = [map |-> m, key |-> key, state |-> "pending"],
                   !.timers = @ \cup {c},
                   ![MapVar(m)][key] = c,
                   !.nativeCalls = Append(@, [handler |-> HandlerOf(m), key |-> key,
                                              issuer |-> c])]

requestArtboardData(S, artboardId, c) == Request(S, "data", artboardId, c)
requestArtboardImage(S, artboardId, c) == Request(S, "image", artboardId, c)
requestSketchFileUpload(S, revisionId, c) == Request(S, "sketch", revisionId, c)

\* the setTimeout callback of caller c's request: deletes the entry under
\* the request's key and rejects the request's promise
TimeoutCallback(S, c) ==
    LET m == S.futures[c].map
        key == S.futures[c].key
    IN  Settle([S EXCEPT !.timers = @ \ {c}, ![MapVar(m)][key] = None], c, "timeout")

OnPluginReplyKeepEntry(S, m, key, ok) ==
    LET pending == S[MapVar(m)][key]
    IN  IF pending # None
        THEN Settle([S EXCEPT !.timers = @ \ {pending}], pending,
                    IF ok THEN "resolved" ELSE "replyError")
        ELSE S

\* initBridgeHandlers: the six onPluginMessage handlers.  The reply carries
\* only the key; the handler settles whatever request is pending under it.
OnPluginReply(S, m, key, ok) ==
    LET pending == S[MapVar(m)][key]
    IN  IF pending # None
        THEN [Settle([S EXCEPT !.timers = @ \ {pending}], pending,
                     IF ok THEN "resolved" ELSE "replyError")
                 EXCEPT ![MapVar(m)][key] = None]
        ELSE S

\* native side: webContents.on('extractArtboardData' | 'exportArtboard' |
\* 'uploadSketchFile'): whether the success reply is sent for a call
NativeReplyOk(call) ==
    CASE call.handler = "extractArtboardData" -> call.key \notin badData
      [] call.handler = "exportArtboard" -> call.key \notin badRender
      [] call.handler = "uploadSketchFile" -> call.key \notin badUpload

\* ------------------------------------------------------- stores/publish.ts
NoError == [kind |-> "none", id |-> None]

\* err.message of the rejection of a correlator promise
ErrorOfFuture(f) ==
    CASE f.state = "superseded" -> [kind |-> "superseded", id |-> None]
      [] f.state = "timeout" -> [kind |-> f.map \o "Timeout", id |-> f.key]
      [] f.state = "replyError" -> [kind |-> f.map \o "Error", id |-> f.key]

defaultPublishState ==
    [isPublishing |-> FALSE, step |-> "creating", versionId |-> None, queue |-> <<>>,
     uploadedIds |-> {}, screens |-> 0, percent |-> 0, error |-> NoError,
     cancelled |-> FALSE]

resetPublish(S) == [S EXCEPT !.publishState = defaultPublishState]

\* setQueueItemStatus that writes the status and the error of every item
setQueueItemStatusAll(S, artboardId, status, error) ==
    [S EXCEPT !.publishState.queue =
        [i \in DOMAIN @ |-> [id |-> @[i].id, status |-> status, error |-> error]]]

setQueueItemStatus(S, artboardId, status, error) ==
    [S EXCEPT !.publishState.queue =
        [i \in DOMAIN @ |-> IF @[i].id = artboardId
                            THEN [id |-> artboardId, status |-> status, error |-> error]
                            ELSE @[i]]]

\* ---------------------------------------------------------------- App.svelte
NoFuture == [map |-> "none", key |-> None, state |-> "none"]
\* resolved: the maps on which a request of the task has resolved
NoTask == [pc |-> "none", attempt |-> 0, err |-> NoError, resolved |-> {}]
NoRun ==
    [pc |-> "none", isResume |-> FALSE, queue |-> <<>>, versionId |-> None,
     uploadedIds |-> {}, completedCount |-> 0, semActive |-> 0, semQueue |-> <<>>,
     outstanding |-> 0, allSettled |-> FALSE, allError |-> NoError,
     ids |-> {}, quietStart |-> FALSE, expired |-> FALSE,
     lastPercent |-> 0, decreased |-> FALSE]

ChosenVersion == 1
Versions == 1..(MaxRuns + 1)
\* id of the version the server creates for run r's createVersion call
CreatedVersion(r) == r + 1

SeqToSet(q) == {q[i] : i \in DOMAIN q}

\* document order of the artboards of documentData.pages
DocumentOrder == [i \in 1..NumArtboards |-> i]

\* publishAbort?.signal.aborted
Aborted(S) == S.publishAbort # None /\ S.publishAbort \in S.aborted

\* Math.round((completedCount / queue.length) * 85) + 5
Percent(completed, total) == ((2 * completed * 85 + total) \div (2 * total)) + 5

\* updatePublish({ percent }) by code of run r.  History: the value the run
\* wrote last, and whether it ever wrote a smaller value than the one before
WritePercent(S, r, percent) ==
    [S EXCEPT !.publishState.percent = percent,
              !.runs[r].decreased = @ \/ percent < S.runs[r].lastPercent,
              !.runs[r].lastPercent = percent]

\* Semaphore.acquire's tryAcquire for the task of artboard a in run r
tryAcquire(S, r, a) ==
    IF S.runs[r].semActive < CONCURRENCY
    THEN Enq([S EXCEPT !.runs[r].semActive = @ + 1],
             [kind |-> "acquired", who |-> TaskCaller(r, a), outcome |-> "none"])
    ELSE [S EXCEPT !.runs[r].semQueue = Append(@, a)]

\* release that gives the slot back and calls no waiter
releaseNoWaiter(S, r) == [S EXCEPT !.runs[r].semActive = @ - 1]

\* release that calls the waiter that joined the queue last
releaseNewest(S, r) ==
    LET S1 == [S EXCEPT !.runs[r].semActive = @ - 1]
        queue == S1.runs[r].semQueue
    IN  IF queue # <<>>
        THEN tryAcquire([S1 EXCEPT !.runs[r].semQueue = SubSeq(queue, 1, Len(queue) - 1)], r,
                        queue[Len(queue)])
        ELSE S1

\* the release function tryAcquire resolves with
release(S, r) ==
    LET S1 == [S EXCEPT !.runs[r].semActive = @ - 1]
    IN  IF S1.runs[r].semQueue # <<>>
        THEN tryAcquire([S1 EXCEPT !.runs[r].semQueue = Tail(@)], r,
                        Head(S1.runs[r].semQueue))
        ELSE S1

\* the task's async callback returns: its promise fulfils, and Promise.all
\* fulfils once every task promise has
TaskReturn(S, c) ==
    LET r == CallerRun(c)
        S1 == [S EXCEPT !.tasks[c].pc = "returned", !.runs[r].outstanding = @ - 1]
    IN  IF S1.runs[r].outstanding = 0 /\ ~S1.runs[r].allSettled
        THEN Enq([S1 EXCEPT !.runs[r].allSettled = TRUE],
                 [kind |-> "main", who |-> r, outcome |-> "resolved"])
        ELSE S1

\* the task's async callback throws: Promise.all rejects with the first
\* rejection
TaskThrow(S, c, err) ==
    LET r == CallerRun(c)
        S1 == [S EXCEPT !.tasks[c].pc = "threw", !.tasks[c].err = err]
    IN  IF ~S1.runs[r].allSettled
        THEN Enq([S1 EXCEPT !.runs[r].allSettled = TRUE, !.runs[r].allError = err],
                 [kind |-> "main", who |-> r, outcome |-> "rejected"])
        ELSE S1

\* if (publishAbort?.signal.aborted) { release(); return; } before the try
AbortBeforeTry(S, c) == TaskReturn(release(S, CallerRun(c)), c)

\* the same statement inside the try: the finally block releases again
AbortInsideTry(S, c) ==
    TaskReturn(release(release(S, CallerRun(c)), CallerRun(c)), c)

\* CatchItem without the status update of the catch block
CatchItemKeepStatus(S, c, err) == TaskThrow(release(S, CallerRun(c)), c, err)

\* catch (err) { setQueueItemStatus(id, 'failed', err.message); throw err; }
\* finally { release(); }
CatchItem(S, c, err) ==
    TaskThrow(release(setQueueItemStatus(S, CallerArt(c), "failed", err), CallerRun(c)),
              c, err)

\* TaskAcquired with a percent that leaves out the items completed so far
TaskAcquiredFromZero(S, c) ==
    LET r == CallerRun(c)
        a == CallerArt(c)
    IN  IF Aborted(S)
        THEN AbortBeforeTry(S, c)
        ELSE LET S1 == setQueueItemStatus(S, a, "extracting", NoError)
                 S2 == WritePercent(S1, r, Percent(0, Len(S.runs[r].queue)))
                 S3 == requestArtboardData(S2, a, c)
             IN  [S3 EXCEPT !.tasks[c].pc = "awaitData"]

\* the .then callback of semaphore.acquire(), up to its first await
TaskAcquired(S, c) ==
    LET r == CallerRun(c)
        a == CallerArt(c)
    IN  IF Aborted(S)
        THEN AbortBeforeTry(S, c)
        ELSE LET S1 == setQueueItemStatus(S, a, "extracting", NoError)
                 S2 == WritePercent(S1, r,
                                    Percent(S.runs[r].completedCount, Len(S.runs[r].queue)))
                 S3 == requestArtboardData(S2, a, c)
             IN  [S3 EXCEPT !.tasks[c].pc = "awaitData"]

\* TaskAfterData that goes on to the render stage whatever the outcome of
\* the tree-data request
TaskAfterDataIgnoreOutcome(S, c) ==
    LET a == CallerArt(c)
        S0 == [S EXCEPT !.futures[c] = NoFuture]
        S1 == setQueueItemStatus(S0, a, "exporting", NoError)
        S2 == requestArtboardImage(S1, a, c)
    IN  [S2 EXCEPT !.tasks[c].pc = "awaitImage", !.tasks[c].attempt = 1]

\* after await requestArtboardData(...)
TaskAfterData(S, c) ==
    LET a == CallerArt(c)
        f == S.futures[c]
        S0 == [S EXCEPT !.futures[c] = NoFuture]
    IN  IF f.state # "resolved"
        THEN CatchItem(S0, c, ErrorOfFuture(f))
        ELSE IF Aborted(S0)
        THEN AbortInsideTry(S0, c)
        ELSE LET S1 == setQueueItemStatus(S0, a, "exporting", NoError)
                 S2 == requestArtboardImage(S1, a, c)
             IN  [S2 EXCEPT !.tasks[c].pc = "awaitImage", !.tasks[c].attempt = 1,
                            !.tasks[c].resolved = @ \cup {"data"}]

\* TaskAfterImage with a loop condition attempt <= maxRetries + 1
TaskAfterImageOneMore(S, c) ==
    LET r == CallerRun(c)
        a == CallerArt(c)
        f == S.futures[c]
        S0 == [S EXCEPT !.futures[c] = NoFuture]
    IN  IF f.state # "resolved"
        THEN IF S0.tasks[c].attempt < maxRetries + 1
             THEN [S0 EXCEPT !.tasks[c].pc = "sleep", !.tasks[c].err = ErrorOfFuture(f)]
             ELSE CatchItem(S0, c, ErrorOfFuture(f))
        ELSE IF Aborted(S0)
        THEN AbortInsideTry(S0, c)
        ELSE LET S1 == setQueueItemStatus(S0, a, "uploading", NoError)
             IN  [S1 EXCEPT !.tasks[c].pc = "awaitUpload",
                            !.tasks[c].resolved = @ \cup {"image"},
                            !.httpCalls = @ \cup {[run |-> r, kind |-> "upload", art |-> a]}]

\* requestArtboardImageWithRetry after one attempt settled, and the code of
\* the task after it
TaskAfterImage(S, c) ==
    LET r == CallerRun(c)
        a == CallerArt(c)
        f == S.futures[c]
        S0 == [S EXCEPT !.futures[c] = NoFuture]
    IN  IF f.state # "resolved"
        THEN IF S0.tasks[c].attempt < maxRetries
             THEN [S0 EXCEPT !.tasks[c].pc = "sleep", !.tasks[c].err = ErrorOfFuture(f)]
             ELSE CatchItem(S0, c, ErrorOfFuture(f))
        ELSE IF Aborted(S0)
        THEN AbortInsideTry(S0, c)
        ELSE LET S1 == setQueueItemStatus(S0, a, "uploading", NoError)
             IN  [S1 EXCEPT !.tasks[c].pc = "awaitUpload",
                            !.tasks[c].resolved = @ \cup {"image"},
                            !.httpCalls = @ \cup {[run |-> r, kind |-> "upload", art |-> a]}]

\* requestArtboardImageWithRetry: the next attempt after the 1000 ms sleep
TaskRetry(S, c) ==
    LET S1 == requestArtboardImage(S, CallerArt(c), c)
    IN  [S1 EXCEPT !.tasks[c].pc = "awaitImage", !.tasks[c].attempt = @ + 1,
                   !.tasks[c].err = NoError]

\* after await uploadScreen(...) succeeded
TaskAfterUpload(S, c) ==
    LET r == CallerRun(c)
        a == CallerArt(c)
        S1 == setQueueItemStatus(S, a, "done", NoError)
        S2 == [S1 EXCEPT !.runs[r].completedCount = @ + 1]
        S3 == WritePercent([S2 EXCEPT !.publishState.screens = S2.runs[r].completedCount],
                           r, Percent(S2.runs[r].completedCount, Len(S2.runs[r].queue)))
    IN  TaskReturn(release(S3, r), c)

\* ------------------------------------------------------------- api.ts
\* resetAuth, which apiFetch calls on a 401 response before it throws
resetAuth(S) == [S EXCEPT !.authToken = FALSE, !.currentView = "connect"]

\* apiFetch throws: the transport failed or the response was a 401
ApiFetchThrows(outcome) == outcome \in {"neterr", "http401"}

\* the message of the error an HTTP call throws for an outcome
HttpError(outcome, kind, art) ==
    IF outcome = "http401"
    THEN [kind |-> "authExpired", id |-> None]
    ELSE IF outcome = "neterr" THEN [kind |-> "network", id |-> None]
    ELSE [kind |-> kind, id |-> art]

\* ------------------------------------------- App.svelte: startPublish itself
\* the catch block of startPublish
MainCatch(S, r, err) ==
    IF Aborted(S)
    THEN [S EXCEPT !.runs[r].pc = "endedAborted"]
    ELSE [S EXCEPT !.runs[r].pc = "endedFailed",
                   !.publishState.step = "failed",
                   !.publishState.error = err,
                   !.publishState.isPublishing = FALSE]

RECURSIVE AcquireAll(_, _, _)
\* toUpload.map((artboard) => semaphore.acquire().then(...))
AcquireAll(S, r, toUpload) ==
    IF toUpload = <<>>
    THEN S
    ELSE AcquireAll(tryAcquire([S EXCEPT !.tasks[TaskCaller(r, Head(toUpload))].pc = "waiting"],
                               r, Head(toUpload)),
                    r, Tail(toUpload))

\* BeginScreens without the marking of the skipped rows and without their
\* count
BeginScreensNoMark(S, r) ==
    LET queue == S.runs[r].queue
        toUpload == SelectSeq(queue, LAMBDA a : a \notin S.runs[r].uploadedIds)
        S1 == [S EXCEPT !.publishState.step = "screens",
                        !.runs[r].completedCount = 0,
                        !.runs[r].semActive = 0,
                        !.runs[r].semQueue = <<>>,
                        !.runs[r].outstanding = Len(toUpload),
                        !.runs[r].pc = "awaitAll"]
        S2 == AcquireAll(S1, r, toUpload)
    IN  IF toUpload = <<>>
        THEN Enq([S2 EXCEPT !.runs[r].allSettled = TRUE],
                 [kind |-> "main", who |-> r, outcome |-> "resolved"])
        ELSE S2

\* BeginScreens with a toUpload list that keeps the uploaded ids
BeginScreensNoSkip(S, r) ==
    LET queue == S.runs[r].queue
        S1 == [S EXCEPT !.publishState.step = "screens",
                        !.runs[r].completedCount = 0,
                        !.runs[r].semActive = 0,
                        !.runs[r].semQueue = <<>>,
                        !.runs[r].outstanding = Len(queue),
                        !.runs[r].pc = "awaitAll"]
    IN  AcquireAll(S1, r, queue)

\* step 2 of startPublish, from updatePublish({ step: 'screens' }) to
\* await Promise.all(uploadPromises)
BeginScreens(S, r) ==
    LET queue == S.runs[r].queue
        uploadedIds == S.runs[r].uploadedIds
        toUpload == SelectSeq(queue, LAMBDA a : a \notin uploadedIds)
        skipped == Len(queue) - Len(toUpload)
        S1 == [S EXCEPT !.publishState.step = "screens",
                        !.publishState.queue =
                            [i \in DOMAIN @ |->
                                IF @[i].id \in uploadedIds /\ @[i].id \in SeqToSet(queue)
                                THEN [id |-> @[i].id, status |-> "done", error |-> NoError]
                                ELSE @[i]],
                        !.runs[r].completedCount = skipped,
                        !.runs[r].semActive = 0,
                        !.runs[r].semQueue = <<>>,
                        !.runs[r].outstanding = Len(toUpload),
                        !.runs[r].pc = "awaitAll"]
        S2 == AcquireAll(S1, r, toUpload)
    IN  IF toUpload = <<>>
        THEN Enq([S2 EXCEPT !.runs[r].allSettled = TRUE],
                 [kind |-> "main", who |-> r, outcome |-> "resolved"])
        ELSE S2

\* history: no task of an earlier run is waiting or in flight
Quiet(S) == \A c \in Callers : S.tasks[c].pc \in {"none", "returned", "threw"}

\* the queue startPublish builds from the selection, in document order
BuildQueue(selected) == SelectSeq(DocumentOrder, LAMBDA a : a \in selected)

\* startPublish(isResume), up to its first await
startPublish(S, isResume) ==
    LET r == S.runCount + 1
        queue == BuildQueue(selectedArtboardIds)
        S1 == [S EXCEPT !.publishAbort = r, !.runCount = r]
        S2 == IF isResume THEN S1 ELSE resetPublish(S1)
        S3 == [WritePercent(S2, r, 0)
                   EXCEPT !.publishState.isPublishing = TRUE,
                         !.publishState.queue =
                             [i \in DOMAIN queue |->
                                 [id |-> queue[i], status |-> "queued", error |-> NoError]],
                         !.publishState.step = "creating",
                         !.publishState.error = NoError,
                         !.publishState.cancelled = FALSE,
                         !.currentView = "progress",
                         !.runs[r].isResume = isResume,
                         !.runs[r].queue = queue,
                         !.runs[r].quietStart = Quiet(S)]
        versionId == S3.publishState.versionId
        chosenVersionId == selectedVersionId
    IN  IF chosenVersionId # None /\ ~isResume
        THEN [S3 EXCEPT !.runs[r].versionId = chosenVersionId,
                        !.runs[r].pc = "awaitFetchChosen",
                        !.publishState.versionId = chosenVersionId,
                        !.httpCalls = @ \cup {[run |-> r, kind |-> "fetchChosen", art |-> None]}]
        ELSE IF ~isResume \/ versionId = None
        THEN [S3 EXCEPT !.runs[r].pc = "awaitCreate",
                        !.httpCalls = @ \cup {[run |-> r, kind |-> "create", art |-> None]}]
        ELSE [S3 EXCEPT !.runs[r].versionId = versionId,
                        !.runs[r].pc = "awaitFetchResume",
                        !.httpCalls = @ \cup {[run |-> r, kind |-> "fetchResume", art |-> None]}]

\* after await createVersion(...)
MainAfterCreate(S, r, outcome) ==
    IF outcome = "ok"
    THEN BeginScreens([S EXCEPT !.runs[r].versionId = CreatedVersion(r),
                                !.publishState.versionId = CreatedVersion(r)], r)
    ELSE MainCatch(S, r, HttpError(outcome, "createVersion", None))

\* getUploadedScreenIds: the ids of the response, or [] when the call fails
getUploadedScreenIds(S, versionId, ok) == IF ok THEN S.serverUploaded[versionId] ELSE {}

\* after await getUploadedScreenIds(...) for a version the user chose
MainAfterFetchChosen(S, r, ok) ==
    LET ids == getUploadedScreenIds(S, S.runs[r].versionId, ok)
        uploadedIds == {id \in ids : id \notin selectedArtboardIds}
    IN  BeginScreens([S EXCEPT !.runs[r].ids = ids,
                               !.runs[r].uploadedIds = uploadedIds,
                               !.publishState.uploadedIds = uploadedIds], r)

\* MainAfterFetchResume with a skip set that adds the ids whose queue rows
\* show uploading or done
MainAfterFetchResumeFromStatuses(S, r, ok) ==
    LET ids == getUploadedScreenIds(S, S.runs[r].versionId, ok)
        shown == {S.publishState.queue[i].id : i \in
                     {j \in DOMAIN S.publishState.queue :
                         S.publishState.queue[j].status \in {"uploading", "done"}}}
    IN  BeginScreens([S EXCEPT !.runs[r].ids = ids,
                               !.runs[r].uploadedIds = ids \cup shown,
                               !.publishState.uploadedIds = ids \cup shown], r)

\* after await getUploadedScreenIds(...) of a resumed run
MainAfterFetchResume(S, r, ok) ==
    LET ids == getUploadedScreenIds(S, S.runs[r].versionId, ok)
    IN  BeginScreens([S EXCEPT !.runs[r].ids = ids,
                               !.runs[r].uploadedIds = ids,
                               !.publishState.uploadedIds = ids], r)

\* after await Promise.all(uploadPromises)
MainAfterAll(S, r, outcome) ==
    IF outcome = "rejected"
    THEN MainCatch(S, r, S.runs[r].allError)
    ELSE IF Aborted(S)
    THEN [S EXCEPT !.runs[r].pc = "endedAborted"]
    ELSE [WritePercent(S, r, 92)
             EXCEPT !.publishState.step = "tokens",
                   !.runs[r].pc = "awaitTokens",
                   !.httpCalls = @ \cup {[run |-> r, kind |-> "tokens", art |-> None]}]

\* after await uploadTokens(...): apiFetch throws on a transport error or a
\* 401, uploadTokens only warns on another non-2xx response
MainAfterTokens(S, r, outcome) ==
    IF ApiFetchThrows(outcome)
    THEN MainCatch(S, r, HttpError(outcome, "tokens", None))
    ELSE IF Aborted(S)
    THEN [S EXCEPT !.runs[r].pc = "endedAborted"]
    ELSE [WritePercent(S, r, 97)
             EXCEPT !.publishState.step = "finalizing",
                   !.runs[r].pc = "awaitFinalize",
                   !.httpCalls = @ \cup {[run |-> r, kind |-> "finalize", art |-> None]}]

\* after await finalizeVersion(...): finalizeVersion does not look at res.ok
MainAfterFinalize(S, r, outcome) ==
    IF ApiFetchThrows(outcome)
    THEN MainCatch(S, r, HttpError(outcome, "finalize", None))
    ELSE [WritePercent(S, r, 100)
             EXCEPT !.publishState.step = "done",
                   !.publishState.isPublishing = FALSE,
                   !.successNav = TRUE,
                   !.runs[r].pc = "endedDone"]

\* handleCancel
handleCancel(S) ==
    LET S1 == IF S.publishAbort # None
              THEN [S EXCEPT !.aborted = @ \cup {S.publishAbort}]
              ELSE S
        S2 == [S1 EXCEPT !.publishState.cancelled = TRUE,
                         !.publishState.isPublishing = FALSE]
    IN  [resetPublish(S2) EXCEPT !.currentView = "publish"]

\* ------------------------------------------------------------------ server
\* what the server does with a request whose response is `outcome`
ServerEffect(S, call, outcome) ==
    LET v == S.runs[call.run].versionId
    IN  IF outcome # "ok"
        THEN S
        ELSE CASE call.kind = "upload" ->
                    [S EXCEPT !.serverUploaded[v] = @ \cup {call.art}]
               [] call.kind = "finalize" ->
                    [S EXCEPT !.serverComplete = @ \cup {v}]
               [] OTHER -> S

\* ------------------------------------------------------- the microtask loop
\* the code a ready continuation runs, up to its next await.  A continuation
\* of a caller that is no publish task (the stand-alone client) only
\* observes the outcome.
RunContinuation(S, cont) ==
    CASE cont.kind = "acquired" -> TaskAcquired(S, cont.who)
      [] cont.kind = "main" -> MainAfterAll(S, cont.who, cont.outcome)
      [] cont.kind = "future" /\ S.tasks[cont.who].pc = "awaitData" ->
            TaskAfterData(S, cont.who)
      [] cont.kind = "future" /\ S.tasks[cont.who].pc = "awaitImage" ->
            TaskAfterImage(S, cont.who)
      [] OTHER -> S

RECURSIVE Drain(_)
\* after a macrotask the ready continuations run, oldest first, until none
\* is left; only then does the next macrotask start
Drain(S) ==
    IF S.microQ = <<>>
    THEN S
    ELSE Drain(RunContinuation([S EXCEPT !.microQ = Tail(@)], Head(S.microQ)))

\* one macrotask: the handler, then the microtask loop
Macrotask(S) == Commit(Drain(S))

\* the documents, selections, server contents and fault budgets the runs
\* start from
\* the small runs: four artboards so that items wait for a slot, with
\* no fault, a render that always fails, or a data fault and a correlator
\* timeout; and one artboard whose render fails, published and resumed
LiveConfigs ==
    {[selected |-> 1..NumArtboards, version |-> None, uploaded |-> {},
      badData |-> {}, badRender |-> {}, httpFaults |-> 0, timeouts |-> 0, runs |-> 1],
     [selected |-> 1..NumArtboards, version |-> None, uploaded |-> {},
      badData |-> {}, badRender |-> {NumArtboards}, httpFaults |-> 0, timeouts |-> 0, runs |-> 1],
     [selected |-> 1..NumArtboards, version |-> None, uploaded |-> {},
      badData |-> {NumArtboards}, badRender |-> {}, httpFaults |-> 0,
      timeouts |-> MaxTimeouts, runs |-> 1],
     [selected |-> {2}, version |-> None, uploaded |-> {},
      badData |-> {}, badRender |-> {2}, httpFaults |-> MaxHttpFaults,
      timeouts |-> 0, runs |-> MaxRuns - 1]}

Configs ==
    {[selected |-> 1..(NumArtboards - 1), version |-> None, uploaded |-> {},
      badData |-> {}, badRender |-> {}, httpFaults |-> MaxHttpFaults, timeouts |-> 0, runs |-> MaxRuns - 1],
     [selected |-> 1..NumArtboards, version |-> None, uploaded |-> {},
      badData |-> {1}, badRender |-> {2}, httpFaults |-> 0, timeouts |-> 0, runs |-> MaxRuns - 1],
     [selected |-> 1..(NumArtboards - 1), version |-> ChosenVersion,
      uploaded |-> {2, NumArtboards}, badData |-> {}, badRender |-> {2},
      httpFaults |-> 0, timeouts |-> 0, runs |-> MaxRuns - 1],
     [selected |-> {1, 2}, version |-> None, uploaded |-> {},
      badData |-> {}, badRender |-> {}, httpFaults |-> 0, timeouts |-> MaxTimeouts, runs |-> MaxRuns - 1],
     [selected |-> {1, 2}, version |-> None, uploaded |-> {},
      badData |-> {}, badRender |-> {2}, httpFaults |-> MaxHttpFaults, timeouts |-> 0, runs |-> MaxRuns - 1],
     [selected |-> {1}, version |-> None, uploaded |-> {},
      badData |-> {}, badRender |-> {}, httpFaults |-> 0, timeouts |-> 0, runs |-> MaxRuns]}
    \cup LiveConfigs

\* the configuration a state started from: selection, chosen version and the
\* native faults never change
TheConfig ==
    CHOOSE cfg \in Configs :
        /\ cfg.selected = selectedArtboardIds
        /\ cfg.version = selectedVersionId
        /\ cfg.badData = badData
        /\ cfg.badRender = badRender

\* ----------------------------------------------------------------- actions
\* the Publish button of the publish view
StartPublish ==
    /\ currentView = "publish"
    /\ runCount < TheConfig.runs
    /\ selectedArtboardIds # {}
    /\ Macrotask(startPublish(St, FALSE))

\* the Resume Upload button of the progress view's error state
handleResume ==
    /\ currentView = "progress"
    /\ publishState.error # NoError
    /\ runCount < TheConfig.runs
    /\ Macrotask(startPublish(St, TRUE))

\* the Cancel buttons of the progress view
Cancel ==
    /\ currentView = "progress"
    /\ Macrotask(handleCancel(St))

\* setTimeout(() => navigateTo('success'), 400)
SuccessNavFires ==
    /\ successNav
    /\ Macrotask([St EXCEPT !.successNav = FALSE, !.currentView = "success"])

\* a correlator timer fires before the native reply arrived
Timeout ==
    \E c \in Callers :
        /\ c \in timers
        /\ timeoutsLeft > 0
        /\ Macrotask(TimeoutCallback([St EXCEPT !.timeoutsLeft = @ - 1], c))

\* the 1000 ms sleep between two image attempts ends
SleepDone ==
    \E c \in Callers :
        /\ tasks[c].pc = "sleep"
        /\ Macrotask(TaskRetry(St, c))

HttpOutcomes == {"ok", "http4xx", "http401", "neterr"}


\* the response of an HTTP call arrives and the code awaiting it continues
HttpResponse ==
    \E call \in httpCalls : \E outcome \in HttpOutcomes :
        /\ outcome # "ok" => httpFaultsLeft > 0
        /\ LET S0 == [St EXCEPT !.httpCalls = @ \ {call},
                                !.httpFaultsLeft = IF outcome = "ok" THEN @ ELSE @ - 1]
               r == call.run
               S401 == IF outcome = "http401"
                       THEN resetAuth([S0 EXCEPT !.runs[r].expired = TRUE])
                       ELSE S0
               S1 == ServerEffect(S401, call, outcome)
               c == TaskCaller(r, call.art)
           IN  Macrotask(CASE call.kind = "create" -> MainAfterCreate(S1, r, outcome)
                        [] call.kind = "fetchChosen" -> MainAfterFetchChosen(S1, r, outcome = "ok")
                        [] call.kind = "fetchResume" -> MainAfterFetchResume(S1, r, outcome = "ok")
                        [] call.kind = "tokens" -> MainAfterTokens(S1, r, outcome)
                        [] call.kind = "finalize" -> MainAfterFinalize(S1, r, outcome)
                        [] call.kind = "upload" ->
                              IF outcome = "ok"
                              THEN TaskAfterUpload(S1, c)
                              ELSE CatchItem(S1, c, HttpError(outcome, "upload", call.art)))

\* the native side serves the oldest call and its reply reaches the webview
NativeReply ==
    /\ nativeCalls # <<>>
    /\ LET call == Head(nativeCalls)
       IN  Macrotask(OnPluginReply([St EXCEPT !.nativeCalls = Tail(@)],
                                MapOfHandler(call.handler), call.key, NativeReplyOk(call)))

\* ---------------------------------------------- stand-alone bridge client
Issued == Cardinality({c \in Callers : futures[c].state # "none"})

\* some caller invokes one of the three request helpers
ClientRequest ==
    \E m \in MapNames : \E key \in 1..NumKeys :
        /\ Issued < MaxRequests
        /\ Macrotask(Request(St, m, key, Issued + 1))

ClientTimeoutOf(c) ==
    /\ c \in timers
    /\ Macrotask(TimeoutCallback(St, c))

ClientTimeout == \E c \in Callers : ClientTimeoutOf(c)

\* ------------------------------------------- native side: lib/extract.js
\* A document is [id, layer]: layer[n] is the layer object with id n.  A
\* layer's parent is another layer, Page for a layer at the top of a page,
\* or None once the layer was removed from the document; an object that was
\* removed lives on while something refers to it.
Nodes == 1..NumNodes
Page == NumNodes + 1
NodeSeq == [i \in Nodes |-> i]
TargetArtboard == NumNodes + 2

NoTarget == [kind |-> "none", id |-> None]
\* sketch.Flow.BackTarget
BackTarget == [kind |-> "back", id |-> None]
NoFlow == [defined |-> FALSE, target |-> NoTarget, targetId |-> None]
ZeroFrame == [x |-> 0, y |-> 0, width |-> 0, height |-> 0]
NoStyle == [defined |-> FALSE, fills |-> <<>>, borders |-> <<>>, shadows |-> <<>>,
            innerShadows |-> <<>>]
NoLayer == [type |-> "absent", parent |-> None, hidden |-> FALSE, flow |-> NoFlow,
            frame |-> ZeroFrame, style |-> NoStyle]

\* layer.layers (page.layers for Page), in document order
layers(doc, n) ==
    SelectSeq(NodeSeq, LAMBDA m : doc.layer[m].type # "absent" /\ doc.layer[m].parent = n)

ArtboardLike(doc, n) == doc.layer[n].type \in {"Artboard", "SymbolMaster"}

RECURSIVE extractLayer(_, _)
\* extractLayerTree(parent): the Layer Nodes of the children that are not
\* hidden
extractLayerTree(doc, parent) ==
    LET visible == SelectSeq(layers(doc, parent), LAMBDA m : ~doc.layer[m].hidden)
    IN  [i \in 1..Len(visible) |-> extractLayer(doc, visible[i])]

\* extractLayer(layer): data.children is set when layer.layers is not empty
extractLayer(doc, layer) ==
    IF Len(layers(doc, layer)) > 0
    THEN [id |-> layer, isVisible |-> TRUE, children |-> extractLayerTree(doc, layer)]
    ELSE [id |-> layer, isVisible |-> TRUE]

\* flow.isBackAction of the host: the flow leads back
isBackAction(flow) == flow.target = BackTarget

\* the body of if (layer.flow) in extractLayer: the flow summary data.flow
extractLayerFlow(doc, layer) ==
    LET flow == doc.layer[layer].flow
    IN  [targetId |-> IF flow.targetId # None
                      THEN flow.targetId
                      ELSE IF flow.target.kind # "none" THEN flow.target.id ELSE None,
         isBackAction |-> isBackAction(flow)]

\* Math.round(v * 100) / 100, with v in thousandths
Round2(v) == ((v + 5) \div 10) * 10

RECURSIVE AddParentsToPage(_, _, _)
\* AddParents with a loop that only ends at the page
AddParentsToPage(doc, parent, pos) ==
    IF parent \notin Nodes
    THEN pos
    ELSE AddParentsToPage(doc, doc.layer[parent].parent,
                          [x |-> pos.x + doc.layer[parent].frame.x,
                           y |-> pos.y + doc.layer[parent].frame.y])

RECURSIVE AddParents(_, _, _)
\* the while loop of getAbsoluteFrame: adds the offsets of the parents up to
\* the artboard or symbol master
AddParents(doc, parent, pos) ==
    IF parent \notin Nodes \/ ArtboardLike(doc, parent)
    THEN pos
    ELSE AddParents(doc, doc.layer[parent].parent,
                    [x |-> pos.x + doc.layer[parent].frame.x,
                     y |-> pos.y + doc.layer[parent].frame.y])

getAbsoluteFrame(doc, layer) ==
    LET frame == doc.layer[layer].frame
        pos == AddParents(doc, doc.layer[layer].parent, [x |-> frame.x, y |-> frame.y])
    IN  [x |-> Round2(pos.x), y |-> Round2(pos.y),
         width |-> Round2(frame.width), height |-> Round2(frame.height)]

\* targetArtboardId of a back action, '__back__'
BackId == "__back__"

\* the body of if (layer.flow) in walkFlows: the edge pushed for the layer,
\* if any
FlowEdgesOf(doc, layer) ==
    LET flow == doc.layer[layer].flow
        target == flow.target
        isBack == target.kind = "none" \/ target = BackTarget
        targetId == IF isBack THEN None
                    ELSE IF target.id # None THEN target.id
                    ELSE flow.targetId
    IN  IF flow.defined /\ (targetId # None \/ isBack)
        THEN <<[sourceLayerId |-> layer,
                sourceRect |-> getAbsoluteFrame(doc, layer),
                targetArtboardId |-> IF isBack THEN BackId ELSE ToString(targetId),
                isBackAction |-> isBack]>>
        ELSE <<>>

RECURSIVE walkFlows(_, _, _)
RECURSIVE walkFlowsLayers(_, _, _)
\* walkFlows(layer, flows): flows after the walk of layer
walkFlows(doc, layer, flows) ==
    IF doc.layer[layer].hidden
    THEN flows
    ELSE walkFlowsLayers(doc, layers(doc, layer), flows \o FlowEdgesOf(doc, layer))

\* the for loop of walkFlows over layer.layers
walkFlowsLayers(doc, ls, flows) ==
    IF ls = <<>>
    THEN flows
    ELSE walkFlowsLayers(doc, Tail(ls), walkFlows(doc, Head(ls), flows))

extractFlows(doc, artboard) == walkFlows(doc, artboard, <<>>)

RECURSIVE walk(_, _, _)
RECURSIVE walkLayers(_, _, _)
\* walk(layer) of countFlows: count after the walk of layer
walk(doc, layer, count) ==
    IF doc.layer[layer].hidden
    THEN count
    ELSE walkLayers(doc, layers(doc, layer),
                    IF doc.layer[layer].flow.defined THEN count + 1 ELSE count)

\* the for loop of walk over layer.layers
walkLayers(doc, ls, count) ==
    IF ls = <<>>
    THEN count
    ELSE walkLayers(doc, Tail(ls), walk(doc, Head(ls), count))

countFlows(doc, artboard) == walk(doc, artboard, 0)

\* extractArtboardMeta(artboard, pageName, index)
extractArtboardMeta(doc, artboard) ==
    [called |-> TRUE, ok |-> TRUE, id |-> artboard, flowCount |-> countFlows(doc, artboard),
     isSymbolMaster |-> doc.layer[artboard].type = "SymbolMaster"]

\* the extraction state as one value
Ex ==
    [document |-> document, artboardMap |-> artboardMap, cachedDocId |-> cachedDocId,
     cachedDocData |-> cachedDocData, exportScale |-> exportScale, output |-> output]

CommitEx(E) ==
    \E T \in {E} :
        /\ document' = T.document
        /\ artboardMap' = T.artboardMap
        /\ cachedDocId' = T.cachedDocId
        /\ cachedDocData' = T.cachedDocData
        /\ exportScale' = T.exportScale
        /\ output' = T.output
        /\ UNCHANGED <<bridgeVars, nativeVars, storeVars, appVars, netVars>>

NotCalled == [called |-> FALSE]
NoOutput == [documentData |-> NotCalled, data |-> NotCalled, image |-> NotCalled,
             style |-> NotCalled]
NoDocument == [id |-> None, layer |-> [n \in Nodes |-> NoLayer]]
NoDocData == [docId |-> None, data |-> NotCalled]

\* buildArtboardMap that keeps a map that is not empty, whatever document
\* it was built for
buildArtboardMapAnyDocument(E) ==
    LET docId == E.document.id
    IN  IF E.artboardMap # {}
        THEN E
        ELSE [E EXCEPT !.artboardMap =
                           {n \in SeqToSet(layers(E.document, Page)) : ArtboardLike(E.document, n)},
                       !.cachedDocId = docId]

\* buildArtboardMap(document): the map is kept when it was built for this
\* document id and is not empty
buildArtboardMap(E) ==
    LET docId == E.document.id
    IN  IF E.cachedDocId = docId /\ E.artboardMap # {}
        THEN E
        ELSE [E EXCEPT !.artboardMap =
                           {n \in SeqToSet(layers(E.document, Page)) : ArtboardLike(E.document, n)},
                       !.cachedDocId = docId]

invalidateCache(E) == [E EXCEPT !.artboardMap = {}, !.cachedDocId = None]

RECURSIVE findInLayers(_, _, _)
findInLayers(doc, ls, id) ==
    IF ls = <<>>
    THEN None
    ELSE IF Head(ls) = id
    THEN id
    ELSE LET found == findInLayers(doc, layers(doc, Head(ls)), id)
         IN  IF found # None THEN found ELSE findInLayers(doc, Tail(ls), id)

findLayerById(doc, id) == findInLayers(doc, layers(doc, Page), id)

\* _artboardMap.get(artboardId) || findLayerById(document, artboardId)
LookupArtboard(E, artboardId) ==
    IF artboardId \in E.artboardMap
    THEN artboardId
    ELSE findLayerById(E.document, artboardId)

NotFound(artboardId) == [called |-> TRUE, ok |-> FALSE, artboardId |-> artboardId,
                         message |-> "not found"]

\* extractDocument(): the index and the metadata of the artboards of the page
extractDocument(E) ==
    LET E1 == buildArtboardMap(E)
        artboards == SelectSeq(layers(E1.document, Page),
                               LAMBDA n : ArtboardLike(E1.document, n))
    IN  [E |-> E1,
         value |-> [called |-> TRUE, ok |-> TRUE,
                    artboards |-> [i \in 1..Len(artboards) |->
                                      extractArtboardMeta(E1.document, artboards[i])]]]

\* extractArtboardData(artboardId): the value returned or the error thrown
extractArtboardData(E, artboardId) ==
    LET E1 == buildArtboardMap(E)
        artboard == LookupArtboard(E1, artboardId)
        flows == extractFlows(E1.document, artboard)
    IN  [E |-> E1,
         value |-> IF artboard = None
                   THEN NotFound(artboardId)
                   ELSE [called |-> TRUE, ok |-> TRUE, artboardId |-> artboardId,
                         layers |-> extractLayerTree(E1.document, artboard),
                         flows |-> flows, flowCount |-> Len(flows)]]

\* scales: '1' of the sketch.export call
scales == 1

\* exportArtboardImage(artboardId): the function has one parameter, a second
\* argument is dropped.  The value stands for the data URI: the layer and
\* the scale sketch.export was called with
exportArtboardImage(E, artboardId) ==
    LET E1 == buildArtboardMap(E)
        artboard == LookupArtboard(E1, artboardId)
    IN  [E |-> E1,
         value |-> IF artboard = None
                   THEN NotFound(artboardId)
                   ELSE [called |-> TRUE, ok |-> TRUE, artboardId |-> artboardId,
                         exported |-> artboard, scale |-> scales]]

NoGradient == [defined |-> FALSE]

\* the stops of a gradient, each copied as { position, color }
mappedStops(stops) ==
    [j \in 1..Len(stops) |-> [position |-> stops[j].position, color |-> stops[j].color]]

\* extractFills with the test of f.enabled left out
RECURSIVE extractFillsAll(_)
extractFillsAll(fills) ==
    IF fills = <<>>
    THEN <<>>
    ELSE LET f == Head(fills)
             gradient ==
                 IF f.gradient.defined
                 THEN [defined |-> TRUE,
                       gradientType |-> f.gradient.gradientType,
                       from |-> f.gradient.from,
                       to |-> f.gradient.to,
                       stops |-> mappedStops(f.gradient.stops)]
                 ELSE NoGradient
         IN  <<[color |-> f.color, fillType |-> f.fillType, gradient |-> gradient]>>
                 \o extractFillsAll(Tail(fills))

\* extractFills(fills): the enabled fills, in order
RECURSIVE extractFills(_)
extractFills(fills) ==
    IF fills = <<>>
    THEN <<>>
    ELSE LET f == Head(fills)
             gradient ==
                 IF f.gradient.defined
                 THEN [defined |-> TRUE,
                       gradientType |-> f.gradient.gradientType,
                       from |-> f.gradient.from,
                       to |-> f.gradient.to,
                       stops |-> mappedStops(f.gradient.stops)]
                 ELSE NoGradient
         IN  IF ~f.enabled
             THEN extractFills(Tail(fills))
             ELSE <<[color |-> f.color, fillType |-> f.fillType, gradient |-> gradient]>>
                      \o extractFills(Tail(fills))

\* extractBorders(borders): the enabled borders, in order
RECURSIVE extractBorders(_)
extractBorders(borders) ==
    IF borders = <<>>
    THEN <<>>
    ELSE LET b == Head(borders)
         IN  IF ~b.enabled
             THEN extractBorders(Tail(borders))
             ELSE <<[color |-> b.color, thickness |-> b.thickness,
                     position |-> b.position, fillType |-> b.fillType]>>
                      \o extractBorders(Tail(borders))

\* extractShadows(shadows): the enabled shadows, in order; used for
\* style.shadows and for style.innerShadows
RECURSIVE extractShadows(_)
extractShadows(shadows) ==
    IF shadows = <<>>
    THEN <<>>
    ELSE LET s == Head(shadows)
         IN  IF ~s.enabled
             THEN extractShadows(Tail(shadows))
             ELSE <<[color |-> s.color, x |-> s.x, y |-> s.y, blur |-> s.blur,
                     spread |-> s.spread]>>
                      \o extractShadows(Tail(shadows))

\* extractStyle(layer): null without a style, else the lists of the style
extractStyle(layer) ==
    LET style == layer.style
        hasFills == Len(style.fills) > 0
        hasBorders == Len(style.borders) > 0
        hasShadows == Len(style.shadows) > 0
        hasInnerShadows == Len(style.innerShadows) > 0
    IN  IF ~style.defined
        THEN [null |-> TRUE]
        ELSE [null |-> FALSE,
              fills |-> IF hasFills THEN extractFills(style.fills) ELSE <<>>,
              borders |-> IF hasBorders THEN extractBorders(style.borders) ELSE <<>>,
              shadows |-> IF hasShadows THEN extractShadows(style.shadows) ELSE <<>>,
              innerShadows |-> IF hasInnerShadows
                               THEN extractShadows(style.innerShadows)
                               ELSE <<>>]

\* normalizeExportScale(scale): scale is a number in tenths, or not finite
normalizeExportScale(scale) ==
    IF ~scale.finite
    THEN DEFAULT_EXPORT_SCALE
    ELSE LET rounded == (scale.tenths + 5) \div 10
         IN  IF rounded < MIN_EXPORT_SCALE \/ rounded > MAX_EXPORT_SCALE
             THEN DEFAULT_EXPORT_SCALE
             ELSE rounded

\* getExportScale(): the stored setting, normalized
getExportScale(E) == normalizeExportScale([finite |-> TRUE, tenths |-> E.exportScale * 10])

\* setExportScale(scale)
setExportScale(E, scale) == [E EXCEPT !.exportScale = normalizeExportScale(scale)]

\* webContents.on('extractDocument', (forceRefresh) => ...)
OnExtractDocument(E, forceRefresh) ==
    LET docId == E.document.id
        shouldUseCache == ~forceRefresh /\ E.cachedDocData.docId = docId
                              /\ E.cachedDocData.data.called
    IN  IF shouldUseCache
        THEN [E EXCEPT !.output.documentData = E.cachedDocData.data]
        ELSE LET R == extractDocument(invalidateCache(E))
             IN  [R.E EXCEPT !.cachedDocData = [docId |-> docId, data |-> R.value],
                             !.output.documentData = R.value]

\* webContents.on('refreshDocument', ...)
OnRefreshDocument(E) ==
    LET R == extractDocument(invalidateCache([E EXCEPT !.cachedDocData = NoDocData]))
    IN  [R.E EXCEPT !.cachedDocData = [docId |-> E.document.id, data |-> R.value],
                    !.output.documentData = R.value]

\* webContents.on('extractArtboardData', (artboardId) => ...): the reply
\* carries the data or the message of the error
OnExtractArtboardData(E, artboardId) ==
    LET R == extractArtboardData(E, artboardId)
    IN  [R.E EXCEPT !.output.data = R.value]

\* webContents.on('exportArtboard', (artboardId) => ...): calls
\* exportArtboardImage(artboardId, getExportScale())
OnExportArtboard(E, artboardId) ==
    LET R == exportArtboardImage(E, artboardId)
    IN  [R.E EXCEPT !.output.image = R.value]

\* ---------------------------------------------------------- specifications
InitCommon ==
    /\ pendingDataRequests = [k \in Artboards |-> None]
    /\ pendingImageRequests = [k \in Artboards |-> None]
    /\ pendingSketchUploads = [k \in Revisions |-> None]
    /\ futures = [c \in Callers |-> NoFuture]
    /\ timers = {}
    /\ nativeCalls = <<>>
    /\ microQ = <<>>
    /\ currentView = "publish"
    /\ successNav = FALSE
    /\ publishState = defaultPublishState
    /\ authToken = TRUE
    /\ publishAbort = None
    /\ aborted = {}
    /\ runs = [r \in Runs |-> NoRun]
    /\ tasks = [c \in Callers |-> NoTask]
    /\ runCount = 0
    /\ httpCalls = {}
    /\ serverComplete = {}

\* no extraction call is made in the runs of the webview
InitExtractIdle ==
    /\ document = NoDocument
    /\ artboardMap = {}
    /\ cachedDocId = None
    /\ cachedDocData = NoDocData
    /\ exportScale = DEFAULT_EXPORT_SCALE
    /\ output = NoOutput

Init ==
    /\ InitCommon
    /\ InitExtractIdle
    /\ badUpload = {}
    /\ \E cfg \in Configs :
          /\ badData = cfg.badData
          /\ badRender = cfg.badRender
          /\ selectedArtboardIds = cfg.selected
          /\ selectedVersionId = cfg.version
          /\ serverUploaded = [v \in Versions |-> IF v = ChosenVersion THEN cfg.uploaded ELSE {}]
          /\ httpFaultsLeft = cfg.httpFaults
          /\ timeoutsLeft = cfg.timeouts

Next ==
    \/ StartPublish
    \/ handleResume
    \/ Cancel
    \/ SuccessNavFires
    \/ NativeReply
    \/ Timeout
    \/ SleepDone
    \/ HttpResponse

Spec == Init /\ [][Next]_vars

\* the small runs only
InitLive == Init /\ TheConfig \in LiveConfigs

\* The native side answers every call, the server answers every HTTP call
\* and the runtime ends every sleep: weak fairness of NativeReply, of
\* HttpResponse and of SleepDone, each written as
\* []<>~ENABLED <<A>>_vars \/ []<><<A>>_vars with ENABLED <<A>>_vars spelled
\* out: the step is possible exactly when its guard holds, and it always
\* changes the state (it takes the call or the sleeping item away).
FairSpec ==
    /\ InitLive
    /\ [][Next]_vars
    /\ []<>(nativeCalls = <<>>) \/ []<><<NativeReply>>_vars
    /\ []<>(httpCalls = {}) \/ []<><<HttpResponse>>_vars
    /\ []<>(\A c \in Callers : tasks[c].pc # "sleep") \/ []<><<SleepDone>>_vars

InitBridge ==
    /\ InitCommon
    /\ InitExtractIdle
    /\ badData = {1}
    /\ badRender = {1}
    /\ badUpload = {1}
    /\ selectedArtboardIds = {}
    /\ selectedVersionId = None
    /\ serverUploaded = [v \in Versions |-> {}]
    /\ httpFaultsLeft = 0
    /\ timeoutsLeft = 0

NextBridge ==
    \/ ClientRequest
    \/ ClientTimeout
    \/ NativeReply

SpecBridge == InitBridge /\ [][NextBridge]_vars

\* the runtime fires every armed timer that is not cleared
FairSpecBridge == SpecBridge /\ WF_vars(ClientTimeout)

\* the webview makes no request while the native side is looked at alone
InitWebviewIdle ==
    /\ InitCommon
    /\ badData = {}
    /\ badRender = {}
    /\ badUpload = {}
    /\ selectedArtboardIds = {}
    /\ selectedVersionId = None
    /\ serverUploaded = [v \in Versions |-> {}]
    /\ httpFaultsLeft = 0
    /\ timeoutsLeft = 0

InitNativeIdle ==
    /\ artboardMap = {}
    /\ cachedDocId = None
    /\ cachedDocData = NoDocData
    /\ exportScale = DEFAULT_EXPORT_SCALE
    /\ output = NoOutput

DocId == 1

\* the flow annotations a layer can carry: none, a concrete target, the back
\* target, a target that is missing, a target object without an id, such
\* an object next to a targetId, and the targetId of a layer that is gone
FlowInputs ==
    {NoFlow,
     [defined |-> TRUE, target |-> NoTarget, targetId |-> TargetArtboard],
     [defined |-> TRUE, target |-> [kind |-> "layer", id |-> TargetArtboard],
      targetId |-> TargetArtboard],
     [defined |-> TRUE, target |-> BackTarget, targetId |-> None],
     [defined |-> TRUE, target |-> NoTarget, targetId |-> None],
     [defined |-> TRUE, target |-> [kind |-> "layer", id |-> None], targetId |-> None],
     [defined |-> TRUE, target |-> [kind |-> "layer", id |-> None],
      targetId |-> TargetArtboard]}

UnitFrame(n) == [x |-> n * 1000, y |-> n * 1000, width |-> 1000, height |-> 1000]

\* a document of one page with one artboard, layer 1; every other layer
\* lies in a layer with a smaller id
TreeDocument(rootType, parent, hidden, flow, frame) ==
    [id |-> DocId,
     layer |-> [n \in Nodes |->
                  IF n = 1
                  THEN [type |-> rootType, parent |-> Page, hidden |-> hidden[1],
                        flow |-> NoFlow, frame |-> frame[1], style |-> NoStyle]
                  ELSE [type |-> IF \E m \in Nodes : m > n /\ parent[m] = n
                                 THEN "Group" ELSE "ShapePath",
                        parent |-> parent[n], hidden |-> hidden[n], flow |-> flow[n],
                        frame |-> frame[n], style |-> NoStyle]]]

TreeShapes == {parent \in [Nodes \ {1} -> Nodes] : \A n \in Nodes \ {1} : parent[n] < n}

InitTree ==
    /\ InitWebviewIdle
    /\ InitNativeIdle
    /\ \E parent \in TreeShapes : \E hidden \in [Nodes -> BOOLEAN] :
          \E flow \in [Nodes \ {1} -> FlowInputs] :
             document = TreeDocument("Artboard", parent, hidden, flow,
                                     [n \in Nodes |-> UnitFrame(n)])

\* the artboard ids the webview holds: those of the last documentData
ListedArtboards ==
    IF output.documentData.called
    THEN {output.documentData.artboards[i].id : i \in DOMAIN output.documentData.artboards}
    ELSE {}

\* the webview asks for the document (pluginCall('extractDocument', ...))
GetDocument == \E forceRefresh \in BOOLEAN : CommitEx(OnExtractDocument(Ex, forceRefresh))

\* the webview asks for a refresh (pluginCall('refreshDocument'))
RefreshDocument == CommitEx(OnRefreshDocument(Ex))

\* the native side serves an extractArtboardData call for a listed artboard
ExtractData == \E id \in ListedArtboards : CommitEx(OnExtractArtboardData(Ex, id))

\* the native side serves an exportArtboard call for a listed artboard
ExportImage == \E id \in ListedArtboards : CommitEx(OnExportArtboard(Ex, id))

NextTree ==
    \/ GetDocument
    \/ ExtractData
    \/ ExportImage

SpecTree == InitTree /\ [][NextTree]_vars

\* frame offsets in thousandths of a point
Coords == {0, 4, 1500}

ConcreteFlow == [defined |-> TRUE, target |-> [kind |-> "layer", id |-> TargetArtboard],
                 targetId |-> TargetArtboard]

\* documents in which every layer below the artboard or symbol master is
\* visible and the source of a flow, at every offset of Coords
InitFrames ==
    /\ InitWebviewIdle
    /\ InitNativeIdle
    /\ \E rootType \in {"Artboard", "SymbolMaster"} : \E parent \in TreeShapes :
          \E x \in [Nodes \ {1} -> Coords] : \E y \in [Nodes \ {1} -> Coords] :
             document = TreeDocument(rootType, parent, [n \in Nodes |-> FALSE],
                                     [n \in Nodes \ {1} |-> ConcreteFlow],
                                     [n \in Nodes |->
                                         IF n = 1 THEN UnitFrame(1)
                                         ELSE [x |-> x[n], y |-> y[n],
                                               width |-> 1000, height |-> 1000]])

SpecFrames == InitFrames /\ [][NextTree]_vars

\* a document of one page: the layers below NumNodes are artboards and
\* symbol masters, those of the set attached lie on the page; layer
\* NumNodes is a shape in layer 1
IndexDocument(attached) ==
    [id |-> DocId,
     layer |-> [n \in Nodes |->
                  IF n = NumNodes
                  THEN [type |-> "ShapePath", parent |-> 1, hidden |-> FALSE,
                        flow |-> ConcreteFlow, frame |-> UnitFrame(n), style |-> NoStyle]
                  ELSE [type |-> IF n % 2 = 1 THEN "Artboard" ELSE "SymbolMaster",
                        parent |-> IF n \in attached THEN Page ELSE None,
                        hidden |-> FALSE, flow |-> NoFlow, frame |-> UnitFrame(n),
                        style |-> NoStyle]]]

\* the id of a second document
OtherDocId == 2

\* the second document: the same kinds of layers, the shape lies on the page
OtherDocument(attached) ==
    [IndexDocument(attached) EXCEPT !.id = OtherDocId, !.layer[NumNodes].parent = Page]

InitIndex ==
    /\ InitWebviewIdle
    /\ InitNativeIdle
    /\ \E attached \in SUBSET (Nodes \ {NumNodes}) : document = IndexDocument(attached)

\* the user deletes an artboard or symbol master of the page
RemoveArtboard ==
    \E n \in Nodes :
        /\ ArtboardLike(document, n)
        /\ document.layer[n].parent = Page
        /\ CommitEx([Ex EXCEPT !.document.layer[n].parent = None])

\* the user puts a deleted artboard or symbol master back (undo)
RestoreArtboard ==
    \E n \in Nodes :
        /\ ArtboardLike(document, n)
        /\ document.layer[n].parent = None
        /\ CommitEx([Ex EXCEPT !.document.layer[n].parent = Page])

\* the user brings the other document to the front
SelectDocument ==
    \E attached \in SUBSET (Nodes \ {NumNodes}) :
        CommitEx([Ex EXCEPT !.document = IF document.id = DocId
                                         THEN OtherDocument(attached)
                                         ELSE IndexDocument(attached)])

\* the values the settings view can send as exportScale, in tenths
ScaleInputs ==
    {[finite |-> FALSE, tenths |-> 0]}
        \cup {[finite |-> TRUE, tenths |-> t] : t \in {0, 10, 14, 25, 40, 44, 45, 50}}

\* webContents.on('saveSettings', ...): if (payload.exportScale !==
\* undefined) setExportScale(payload.exportScale)
SaveSettings == \E scale \in ScaleInputs : CommitEx(setExportScale(Ex, scale))

NextIndex ==
    \/ SelectDocument
    \/ RemoveArtboard
    \/ RestoreArtboard
    \/ GetDocument
    \/ RefreshDocument
    \/ ExtractData
    \/ ExportImage

SpecIndex == InitIndex /\ [][NextIndex]_vars

\* the image export under every export scale of the settings
NextScale ==
    \/ SaveSettings
    \/ GetDocument
    \/ ExportImage

SpecScale == InitIndex /\ [][NextScale]_vars

\* the callers of acquire of one semaphore looked at alone: two more than
\* its limit
Acquirers == 1..(CONCURRENCY + 2)

TheSemaphore == 1

InitSemaphore ==
    /\ InitWebviewIdle
    /\ InitExtractIdle

\* semaphore.acquire() is called: tryAcquire resolves the promise or joins
\* the queue
SemAcquire ==
    \E a \in Acquirers :
        /\ tasks[TaskCaller(TheSemaphore, a)].pc = "none"
        /\ Commit(tryAcquire([St EXCEPT !.tasks[TaskCaller(TheSemaphore, a)].pc = "waiting"],
                             TheSemaphore, a))

\* the .then callback of an admitted caller runs and holds the release
\* function
SemAdmitted ==
    /\ microQ # <<>>
    /\ Head(microQ).kind = "acquired"
    /\ Commit([St EXCEPT !.microQ = Tail(@), !.tasks[Head(microQ).who].pc = "holding"])

\* a holder calls its release function
SemRelease ==
    \E a \in Acquirers :
        /\ tasks[TaskCaller(TheSemaphore, a)].pc = "holding"
        /\ Commit(release([St EXCEPT !.tasks[TaskCaller(TheSemaphore, a)].pc = "none"],
                          TheSemaphore))

NextSemaphore ==
    \/ SemAcquire
    \/ SemAdmitted
    \/ SemRelease

SpecSemaphore == InitSemaphore /\ [][NextSemaphore]_vars

\* the longest list of fills, borders, shadows or inner shadows of a style
MaxEntries == 2

Colors == {"#ff0000ff", "#0000ff80"}

LinearGradient ==
    [defined |-> TRUE, gradientType |-> "Linear",
     from |-> [x |-> 0, y |-> 0], to |-> [x |-> 1, y |-> 1],
     stops |-> <<[position |-> 0, color |-> "#ff0000ff"],
                 [position |-> 1, color |-> "#0000ff80"]>>]

FillInputs ==
    {[enabled |-> e, color |-> c, fillType |-> "Color", gradient |-> NoGradient] :
         e \in BOOLEAN, c \in Colors}
        \cup {[enabled |-> e, color |-> "#ff0000ff", fillType |-> "Gradient",
                gradient |-> LinearGradient] : e \in BOOLEAN}

\* enabled borders of each color and a disabled one
BorderInputs ==
    {[enabled |-> TRUE, color |-> c, thickness |-> 1, position |-> "Center",
      fillType |-> "Color"] : c \in Colors}
        \cup {[enabled |-> FALSE, color |-> "#ff0000ff", thickness |-> 1,
                position |-> "Center", fillType |-> "Color"]}

\* enabled shadows of each color and a disabled one
ShadowInputs ==
    {[enabled |-> TRUE, color |-> c, x |-> 0, y |-> 2, blur |-> 4, spread |-> 0] :
         c \in Colors}
        \cup {[enabled |-> FALSE, color |-> "#ff0000ff", x |-> 0, y |-> 2, blur |-> 4,
                spread |-> 0]}

ListsOf(S) == UNION {[1..n -> S] : n \in 0..MaxEntries}

\* layer NumNodes of an artboard carries the style under test, or none
StyleDocument(style) ==
    [IndexDocument({1}) EXCEPT !.layer[NumNodes].style = style]

InitStyle ==
    /\ InitWebviewIdle
    /\ InitNativeIdle
    /\ \/ document = StyleDocument(NoStyle)
       \/ \E fills \in ListsOf(FillInputs), borders \in ListsOf(BorderInputs),
             shadows \in ListsOf(ShadowInputs), innerShadows \in ListsOf(ShadowInputs) :
             document = StyleDocument([defined |-> TRUE, fills |-> fills,
                                       borders |-> borders, shadows |-> shadows,
                                       innerShadows |-> innerShadows])

\* extractLayer: style: style ? extractStyle(layer) : null
ExtractStyle ==
    \E n \in Nodes :
        CommitEx([Ex EXCEPT !.output.style =
                      [called |-> TRUE, layerId |-> n,
                       value |-> extractStyle(document.layer[n])]])

NextStyle == ExtractStyle

SpecStyle == InitStyle /\ [][NextStyle]_vars

\* the longest queue of the publish state looked at alone
MaxQueue == 2

ArtboardStatuses == {"queued", "extracting", "exporting", "uploading", "done", "failed"}

\* the optional error argument: absent, or a message
ErrorInputs == {NoError, [kind |-> "network", id |-> None]}

\* a publish state in the middle of a publish
midPublishState ==
    [isPublishing |-> TRUE, step |-> "uploading", versionId |-> 1, queue |-> <<>>,
     uploadedIds |-> {1}, screens |-> 1, percent |-> 50, error |-> NoError,
     cancelled |-> FALSE]

\* queues of queued items; an id can occur twice
QueueInputs ==
    UNION {[1..n -> {[id |-> a, status |-> "queued", error |-> NoError] : a \in Artboards}] :
               n \in 0..MaxQueue}

InitStore ==
    /\ pendingDataRequests = [k \in Artboards |-> None]
    /\ pendingImageRequests = [k \in Artboards |-> None]
    /\ pendingSketchUploads = [k \in Revisions |-> None]
    /\ futures = [c \in Callers |-> NoFuture]
    /\ timers = {}
    /\ nativeCalls = <<>>
    /\ microQ = <<>>
    /\ currentView = "publish"
    /\ successNav = FALSE
    /\ \E base \in {defaultPublishState, midPublishState}, queue \in QueueInputs :
          publishState = [base EXCEPT !.queue = queue]
    /\ authToken = TRUE
    /\ publishAbort = None
    /\ aborted = {}
    /\ runs = [r \in Runs |-> NoRun]
    /\ tasks = [c \in Callers |-> NoTask]
    /\ runCount = 0
    /\ httpCalls = {}
    /\ serverComplete = {}
    /\ InitExtractIdle
    /\ badData = {}
    /\ badRender = {}
    /\ badUpload = {}
    /\ selectedArtboardIds = {}
    /\ selectedVersionId = None
    /\ serverUploaded = [v \in Versions |-> {}]
    /\ httpFaultsLeft = 0
    /\ timeoutsLeft = 0

SetQueueItemStatus ==
    \E artboardId \in Artboards, status \in ArtboardStatuses, error \in ErrorInputs :
        Commit(setQueueItemStatus(St, artboardId, status, error))

NextStore == SetQueueItemStatus

SpecStore == InitStore /\ [][NextStore]_vars

\* ------------------------------------------------------------ properties
InFlightStatuses == {"extracting", "exporting", "uploading"}

InFlightCount ==
    Cardinality({i \in DOMAIN publishState.queue :
                    publishState.queue[i].status \in InFlightStatuses})

\* C1: in every reachable state at most CONCURRENCY queue items have status
\* extracting, exporting or uploading
C1_InFlightWithinLimit == InFlightCount <= CONCURRENCY

SettledStates == {"resolved", "superseded", "timeout", "replyError"}

\* a request on the map and key of caller c's request is being issued
NewRequestOnKeyOf(c) ==
    \E d \in Callers :
        /\ d # c
        /\ futures[d].state = "none"
        /\ futures'[d].state # "none"
        /\ futures'[d].map = futures[c].map
        /\ futures'[d].key = futures[c].key

\* C2: a pending request is rejected as superseded when a request for its
\* key is issued on its map; the superseded rejection differs from every
\* timeout and reply rejection; a superseded request never changes again
C2_SupersededRejectsAndStays ==
    [][\A c \in Callers :
          /\ (futures[c].state = "pending" /\ NewRequestOnKeyOf(c))
                => futures'[c].state = "superseded"
          /\ futures[c].state = "superseded" => futures'[c] = futures[c]
          /\ \A d \in Callers :
                (futures'[c].state = "superseded" /\ futures'[d].state \in {"timeout", "replyError"})
                   => ErrorOfFuture(futures'[c]) # ErrorOfFuture(futures'[d])]_vars

\* a request was superseded and the request that superseded it was resolved
\* by a reply
C2_Witness ==
    \E c, d \in Callers :
        /\ futures[c].state = "superseded"
        /\ futures[d].state = "resolved"
        /\ c < d
        /\ futures[d].map = futures[c].map
        /\ futures[d].key = futures[c].key

\* C3: the reply to a call whose request is no longer pending (superseded or
\* timed out) changes no request
C3_LateReplyIsNoOp ==
    [][(/\ nativeCalls # <<>>
        /\ nativeCalls' = Tail(nativeCalls)
        /\ futures[Head(nativeCalls).issuer].state \in {"superseded", "timeout"})
          => futures' = futures]_vars

PendingOn(m, key) ==
    {c \in Callers : futures[c].map = m /\ futures[c].key = key /\ futures[c].state = "pending"}

\* C4: each key of each map has at most one unsettled request, and it is the
\* one the map holds
C4_OnePendingPerKey ==
    \A m \in MapNames : \A key \in KeysOf(m) :
        /\ Cardinality(PendingOn(m, key)) <= 1
        /\ \A c \in PendingOn(m, key) : St[MapVar(m)][key] = c

\* a key with a pending request that superseded an earlier one
C4_Witness ==
    \E m \in MapNames : \E key \in KeysOf(m) :
        /\ Cardinality(PendingOn(m, key)) = 1
        /\ \E c \in Callers : /\ futures[c].map = m
                              /\ futures[c].key = key
                              /\ futures[c].state = "superseded"

\* the maps hold only requests that are pending under that key
EntriesArePending ==
    \A m \in MapNames : \A key \in KeysOf(m) :
        St[MapVar(m)][key] # None => St[MapVar(m)][key] \in PendingOn(m, key)

\* C5: every issued request is eventually settled, a settled request never
\* changes again, and a settled request has no map entry
C5_SettledExactlyOnce ==
    /\ [][\A c \in Callers : futures[c].state \in SettledStates => futures'[c] = futures[c]]_vars
    /\ []EntriesArePending
    /\ \A c \in Callers :
          (futures[c].state = "pending") ~> (futures[c].state \in SettledStates)

\* one request resolved, one rejected by an error reply and one by its timer
C5_Witness ==
    /\ \E c \in Callers : futures[c].state = "timeout"
    /\ \E c \in Callers : futures[c].state = "resolved"
    /\ \E c \in Callers : futures[c].state = "replyError"
    /\ \A m \in MapNames : \A key \in KeysOf(m) : St[MapVar(m)][key] = None

\* the task of caller c starts a stage: its tree-data request, its render
\* stage or its screen upload
StartsStage(c) ==
    \/ tasks[c].pc \in {"none", "waiting"} /\ tasks'[c].pc = "awaitData"
    \/ tasks[c].pc = "awaitData" /\ tasks'[c].pc = "awaitImage"
    \/ tasks[c].pc = "awaitImage" /\ tasks'[c].pc = "awaitUpload"

\* the task of caller c issues a request: a stage start or a render retry
IssuesRequest(c) ==
    \/ StartsStage(c)
    \/ tasks[c].pc = "sleep" /\ tasks'[c].pc = "awaitImage"

EndedTaskStates == {"none", "returned", "threw"}

\* C6: once handleCancel has aborted the controller of a run, no item of
\* that run starts a stage, the run issues neither the token upload nor the
\* finalize call, and when its items have ended no slot is held
C6_CancelledRunStops ==
    [][\A r \in aborted :
          /\ \A a \in Artboards : ~StartsStage(TaskCaller(r, a))
          /\ runs'[r].pc \in {"awaitTokens", "awaitFinalize"} => runs'[r].pc = runs[r].pc
          /\ (\A a \in Artboards : tasks'[TaskCaller(r, a)].pc \in EndedTaskStates)
                => runs'[r].semActive <= 0]_vars

\* the item of caller c fails in this step
Fails(c) == tasks[c].pc # "threw" /\ tasks'[c].pc = "threw"

FailedRow(a, err) == [id |-> a, status |-> "failed", error |-> err]

\* a run with a failed item never reaches the token upload or the finalize
\* call
FailedRunNeverFinalizes ==
    \A c \in Callers :
        tasks[c].pc = "threw"
            => runs[CallerRun(c)].pc \notin {"awaitTokens", "awaitFinalize", "endedDone"}

PastStepOne(r) == runs[r].pc \notin {"none", "awaitCreate", "awaitFetchChosen", "awaitFetchResume"}

\* the artboards of the queue the task of run r has taken up
Processed(r) == {a \in Artboards : tasks[TaskCaller(r, a)].pc # "none"}

\* exactly one selected artboard has a render that always fails, and every
\* other request has succeeded so far
OneRenderFails ==
    /\ badData = {}
    /\ Cardinality(badRender \cap selectedArtboardIds) = 1
    /\ httpFaultsLeft = TheConfig.httpFaults
    /\ timeoutsLeft = TheConfig.timeouts

\* C8: when exactly one item's render always fails, a resume started after
\* the items of the failed run have settled skips exactly the other items
\* and processes only the failed one
C8_ResumeSkipsExactlyDone ==
    \A r \in Runs :
        (OneRenderFails /\ runs[r].isResume /\ runs[r].quietStart /\ PastStepOne(r))
            => /\ runs[r].uploadedIds \cap selectedArtboardIds
                     = selectedArtboardIds \ badRender
               /\ Processed(r) = selectedArtboardIds \cap badRender

\* the uploaded artboards the user selected again for the chosen version
Reselected == selectedArtboardIds \cap TheConfig.uploaded

C10_SkipSetIsUploadedMinusSelected ==
    \A r \in Runs :
        (selectedVersionId # None /\ PastStepOne(r))
            => runs[r].uploadedIds = runs[r].ids \ selectedArtboardIds

\* the items of earlier runs whose screen upload is still awaiting its
\* response when run r has computed its skip set
UnconfirmedFor(r) ==
    {a \in Artboards : \E q \in Runs : q < r /\ tasks[TaskCaller(q, a)].pc = "awaitUpload"}

\* C11: the skip set of every run is a subset of the ids its
\* uploaded-screens call returned, and those are ids the server holds for
\* the version of the run
C11_SkipSetWithinReturnedIds ==
    \A r \in Runs :
        /\ runs[r].uploadedIds \subseteq runs[r].ids
        /\ runs[r].ids # {} => runs[r].ids \subseteq serverUploaded[runs[r].versionId]

\* a resumed run skips some returned ids while an item of the failed run,
\* whose upload is not confirmed, is outside the skip set
C11_Witness ==
    \E r \in Runs :
        /\ runs[r].isResume
        /\ PastStepOne(r)
        /\ runs[r].uploadedIds # {}
        /\ UnconfirmedFor(r) # {}
        /\ UnconfirmedFor(r) \cap runs[r].uploadedIds = {}

\* the queue items of run r that are in its skip set
Skipped(r) == SeqToSet(runs[r].queue) \cap runs[r].uploadedIds

\* an item of another run than r takes up artboard a in this step, after a
\* slot of its run's semaphore was released to it
TakenUpByOtherRun(r, a) ==
    \E q \in Runs \ {r} :
        /\ tasks[TaskCaller(q, a)].pc = "waiting"
        /\ tasks'[TaskCaller(q, a)].pc = "awaitData"

\* C12: when a run has computed its skip set and enters the screens step,
\* it marks every queue row of a skipped item done (the row is done after
\* the step unless an item of another run took the artboard up later in the
\* same step) and counts the skipped items as completed; no task of the run
\* ever takes up a skipped item
C12_SkippedItemsDoneWithoutWork ==
    /\ [][\A r \in Runs :
            (~PastStepOne(r) /\ runs'[r].pc \notin {"none", "awaitCreate", "awaitFetchChosen",
                                                    "awaitFetchResume"})
                => LET skipped == SeqToSet(runs'[r].queue) \cap runs'[r].uploadedIds
                   IN  /\ \A i \in DOMAIN publishState'.queue :
                             publishState'.queue[i].id \in skipped
                                => \/ publishState'.queue[i].status = "done"
                                   \/ TakenUpByOtherRun(r, publishState'.queue[i].id)
                       /\ runs'[r].completedCount = Cardinality(skipped)]_vars
    /\ [](\A r \in Runs : Processed(r) \cap Skipped(r) = {})

\* a resumed run skipped an item, whose row is done, and works on another
C12_Witness ==
    \E r \in Runs :
        /\ Skipped(r) # {}
        /\ runs[r].completedCount = Cardinality(Skipped(r))
        /\ \A a \in Skipped(r) : \E i \in DOMAIN publishState.queue :
              publishState.queue[i] = [id |-> a, status |-> "done", error |-> NoError]
        /\ \E a \in SeqToSet(runs[r].queue) \ Skipped(r) :
              tasks[TaskCaller(r, a)].pc = "awaitData"

\* the edges of the status of a queue item
StatusEdges ==
    {<<"queued", "extracting">>, <<"extracting", "exporting">>,
     <<"exporting", "uploading">>, <<"uploading", "done">>, <<"queued", "done">>}
        \cup {<<st, "failed">> : st \in {"queued", "extracting", "exporting", "uploading"}}

\* this step is a start, a resume or a cancel, which replace the queue
QueueRebuilt == runCount' # runCount \/ aborted' # aborted

\* C13: between two queue rebuilds every status change of a queue row
\* follows an edge of StatusEdges, so done and failed rows never change
C13_StatusFollowsEdges ==
    [][~QueueRebuilt =>
          \A i \in DOMAIN publishState.queue :
              \/ publishState'.queue[i].status = publishState.queue[i].status
              \/ <<publishState.queue[i].status, publishState'.queue[i].status>>
                    \in StatusEdges]_vars

\* getStepOrder of the progress view
getStepOrder(step) ==
    CASE step = "creating" -> 0
      [] step = "screens" -> 1
      [] step = "tokens" -> 2
      [] step = "finalizing" -> 3
      [] step = "done" -> 4
      [] OTHER -> -1

\* C14: unless the step is a start, a resume or a cancel, the global step
\* stays, advances in the order of getStepOrder or jumps to failed, and it
\* never leaves done or failed
C14_StepOnlyAdvances ==
    [][~QueueRebuilt =>
          \/ publishState'.step = publishState.step
          \/ /\ publishState.step \notin {"done", "failed"}
             /\ \/ publishState'.step = "failed"
                \/ getStepOrder(publishState'.step) > getStepOrder(publishState.step)]_vars

\* the positions a task may come from when it takes a position
StageOrderOK(c) ==
    /\ tasks'[c].pc = "awaitData" => tasks[c].pc \in {"none", "waiting", "awaitData"}
    /\ tasks'[c].pc = "awaitImage" => tasks[c].pc \in {"awaitData", "sleep", "awaitImage"}
    /\ tasks'[c].pc = "sleep" => tasks[c].pc \in {"awaitImage", "sleep"}
    /\ tasks'[c].pc = "awaitUpload" => tasks[c].pc \in {"awaitImage", "awaitUpload"}

\* C15: an item issues its render request only after its tree-data request
\* resolved and its screen upload only after its image request resolved,
\* and its stages follow the order extract, render, upload
C15_StagesInOrder ==
    /\ [][\A c \in Callers : StageOrderOK(c)]_vars
    /\ [](\A c \in Callers :
            /\ tasks[c].pc \in {"awaitImage", "sleep"} => tasks[c].resolved = {"data"}
            /\ tasks[c].pc = "awaitUpload" => tasks[c].resolved = {"data", "image"})

\* one item uploads after both of its requests resolved while the
\* tree-data request of another item of the run was rejected
C15_Witness ==
    \E c, d \in Callers :
        /\ CallerRun(c) = CallerRun(d)
        /\ tasks[c].pc = "awaitUpload"
        /\ tasks[c].resolved = {"data", "image"}
        /\ tasks[d].pc = "threw"
        /\ tasks[d].resolved = {}

\* C16: when the token upload call of a run that is not cancelled ends,
\* whatever its outcome, the run goes on to the finalize call and the step
\* is not failed
C16_TokenFailureTolerated ==
    [][\A r \in Runs :
          (/\ runs[r].pc = "awaitTokens"
           /\ runs'[r].pc # "awaitTokens"
           /\ r \notin aborted
           /\ ~Aborted(St))
              => /\ runs'[r].pc = "awaitFinalize"
                 /\ publishState'.step = "finalizing"]_vars

\* C17: a run reports done only in a step in which its finalize call
\* succeeded, so that the server holds its version as complete
C17_DoneOnlyAfterFinalizeSucceeded ==
    [][\A r \in Runs :
          (runs[r].pc # "endedDone" /\ runs'[r].pc = "endedDone")
              => /\ runs[r].pc = "awaitFinalize"
                 /\ runs[r].versionId \in serverComplete']_vars

\* C18: a resume that follows a failed run which recorded a version id makes
\* no create-version call and works on that version: it starts with the
\* call that lists the version's uploaded screens, and the version id of a
\* started run never changes afterwards
C18_ResumeReusesVersion ==
    [][\A r \in Runs \ {1} :
          /\ (/\ runs[r].pc = "none"
              /\ runs'[r].pc # "none"
              /\ runs'[r].isResume
              /\ runs[r - 1].pc = "endedFailed"
              /\ runs[r - 1].versionId # None)
                 => /\ runs'[r].versionId = runs[r - 1].versionId
                    /\ runs'[r].pc = "awaitFetchResume"
                    /\ [run |-> r, kind |-> "create", art |-> None] \notin httpCalls'
          /\ (runs[r].isResume /\ runs[r].versionId # None)
                 => runs'[r].versionId = runs[r].versionId]_vars

\* the values round(completed / total * 85) + 5 for completed in 0..total
ScreensPercents(total) == {Percent(completed, total) : completed \in 0..total}

\* C19: every percent written while the step is screens is
\* round(completed / total * 85) + 5 for some completed <= total of a run's
\* queue, so it lies in 5..90; and percent is 100 only when the step is done
C19_PercentBands ==
    /\ [](publishState.percent = 100 => publishState.step = "done")
    /\ [][(publishState'.percent # publishState.percent /\ publishState'.step = "screens")
             => /\ publishState'.percent \in 5..90
                /\ \E r \in Runs :
                      /\ runs'[r].queue # <<>>
                      /\ publishState'.percent \in ScreensPercents(Len(runs'[r].queue))]_vars

\* C20: when a call of a run is answered 401 the credentials are cleared
\* and the run is halted: from that step on the run issues no network call
\* and none of its items starts a stage or retries a render
C20_ExpiredSessionHalts ==
    /\ [](\A r \in Runs : runs[r].expired => ~authToken)
    /\ [][\A r \in Runs :
              runs'[r].expired
                  => /\ \A call \in httpCalls' \ httpCalls : call.run # r
                     /\ \A a \in Artboards : ~IssuesRequest(TaskCaller(r, a))]_vars

\* C21: a superseded rejection is never shown to the user: no queue row
\* carries it as its error and it is never the error of the publish
C21_SupersededNeverVisible ==
    /\ publishState.error.kind # "superseded"
    /\ \A i \in DOMAIN publishState.queue :
          publishState.queue[i].error.kind # "superseded"

\* the task of caller c issues a render request
RenderRequest(c) ==
    tasks[c].pc \in {"awaitData", "sleep"} /\ tasks'[c].pc = "awaitImage"

\* the messages a rejected image request can carry
ImageErrorKinds == {"imageError", "imageTimeout", "superseded"}

\* C22: attempt counts the render requests of an item and never exceeds
\* maxRetries; an attempt that fails below maxRetries leads to the backoff
\* sleep, the failure of attempt maxRetries fails the item with the error of
\* that attempt, and after a success or the final failure the item issues no
\* render request
C22_RetryBounded ==
    /\ [](\A c \in Callers : tasks[c].attempt <= maxRetries)
    /\ [][\A c \in Callers :
            /\ RenderRequest(c) => tasks'[c].attempt = tasks[c].attempt + 1
            /\ ~RenderRequest(c) => tasks'[c].attempt = tasks[c].attempt
            /\ (tasks[c].pc = "awaitImage" /\ tasks'[c].pc # "awaitImage")
                  => \/ tasks'[c].pc \in {"awaitUpload", "returned"}
                     \/ /\ tasks'[c].pc = "sleep"
                        /\ tasks[c].attempt < maxRetries
                     \/ /\ tasks'[c].pc = "threw"
                        /\ tasks[c].attempt = maxRetries
                        /\ tasks'[c].err.kind \in ImageErrorKinds
                        /\ (timeoutsLeft' # timeoutsLeft) = (tasks'[c].err.kind = "imageTimeout")
            /\ tasks[c].pc \in {"awaitUpload", "returned", "threw"}
                  => ~RenderRequest(c) /\ tasks'[c].pc # "sleep"]_vars

\* an item failed on its third render attempt with the error of the reply
C22_Witness ==
    \E c \in Callers :
        /\ tasks[c].pc = "threw"
        /\ tasks[c].attempt = maxRetries
        /\ tasks[c].err = [kind |-> "imageError", id |-> CallerArt(c)]

\* the flow count the artboard summary shows for artboard id
ListedFlowCount(id) ==
    LET i == CHOOSE i \in DOMAIN output.documentData.artboards :
                 output.documentData.artboards[i].id = id
    IN  output.documentData.artboards[i].flowCount

\* C23: the flow count listed for an artboard equals the number of flow
\* edges extracted for it
C23_CountEqualsExtracted ==
    (output.data.called /\ output.data.ok)
        => ListedFlowCount(output.data.artboardId) = Len(output.data.flows)

RECURSIVE LayerNodes(_)
\* the Layer Nodes of a list of Layer Nodes and of their children lists
LayerNodes(list) ==
    UNION {{list[i]} \cup (IF "children" \in DOMAIN list[i]
                           THEN LayerNodes(list[i].children)
                           ELSE {})
           : i \in DOMAIN list}

RECURSIVE VisibleUpTo(_, _, _)
\* layer n is not hidden and has no hidden ancestor up to and including
\* the artboard
VisibleUpTo(doc, n, artboard) ==
    /\ n \in Nodes
    /\ ~doc.layer[n].hidden
    /\ n = artboard \/ VisibleUpTo(doc, doc.layer[n].parent, artboard)

\* C24: every Layer Node of an extracted tree and every flow-edge source is
\* a layer that is not hidden and has no hidden ancestor up to and including
\* the extracted artboard
C24_HiddenNeverExtracted ==
    (output.data.called /\ output.data.ok)
        => /\ \A d \in LayerNodes(output.data.layers) :
                 VisibleUpTo(document, d.id, output.data.artboardId)
           /\ \A i \in DOMAIN output.data.flows :
                 VisibleUpTo(document, output.data.flows[i].sourceLayerId,
                             output.data.artboardId)

\* C25: an extracted Layer Node has a children field exactly when its layer
\* has a child that is not hidden, and the field is never an empty list
C25_ChildrenIffVisibleChild ==
    (output.data.called /\ output.data.ok)
        => \A d \in LayerNodes(output.data.layers) :
              /\ ("children" \in DOMAIN d)
                    <=> (\E m \in Nodes : /\ document.layer[m].parent = d.id
                                          /\ ~document.layer[m].hidden)
              /\ "children" \in DOMAIN d => d.children # <<>>

RECURSIVE ExactOffset(_, _)
\* the frame offset of layer n plus the offsets of its ancestors strictly
\* below the artboard or symbol master, not rounded
ExactOffset(doc, n) ==
    LET own == [x |-> doc.layer[n].frame.x, y |-> doc.layer[n].frame.y]
        parent == doc.layer[n].parent
    IN  IF parent \notin Nodes \/ ArtboardLike(doc, parent)
        THEN own
        ELSE [x |-> own.x + ExactOffset(doc, parent).x,
              y |-> own.y + ExactOffset(doc, parent).y]

\* the document without group g: the children of g lie in g's parent
Dissolve(doc, g) ==
    [doc EXCEPT !.layer =
        [n \in Nodes |->
            IF n = g THEN NoLayer
            ELSE IF doc.layer[n].parent = g
            THEN [doc.layer[n] EXCEPT !.parent = doc.layer[g].parent]
            ELSE doc.layer[n]]]

\* a group strictly below the artboard with offset (0, 0)
ZeroGroup(doc, g) ==
    /\ g \in Nodes
    /\ ~ArtboardLike(doc, g)
    /\ doc.layer[g].frame.x = 0
    /\ doc.layer[g].frame.y = 0
    /\ \E m \in Nodes : doc.layer[m].parent = g

\* the rectangle of every flow edge is the same in the document without a
\* group of offset (0, 0) above its source
NestingInvariant ==
    \A i \in DOMAIN output.data.flows : \A g \in Nodes :
        (ZeroGroup(document, g) /\ output.data.flows[i].sourceLayerId # g)
            => output.data.flows[i].sourceRect
                   = getAbsoluteFrame(Dissolve(document, g),
                                      output.data.flows[i].sourceLayerId)

\* C26 as stated: the x and y of a flow edge's rectangle are the exact sum of
\* the offsets of the source and of its ancestors below the artboard
C26_RectIsExactSum ==
    (output.data.called /\ output.data.ok)
        => /\ \A i \in DOMAIN output.data.flows :
                 LET sum == ExactOffset(document, output.data.flows[i].sourceLayerId)
                 IN  /\ output.data.flows[i].sourceRect.x = sum.x
                     /\ output.data.flows[i].sourceRect.y = sum.y
           /\ NestingInvariant

\* C26: the x and y of a flow edge's rectangle are the sum of the offsets of
\* the source and of its ancestors strictly below the artboard or symbol
\* master, rounded to two decimals; a group of offset (0, 0) between source
\* and artboard does not change the rectangle
C26_RectIsRoundedSum ==
    (output.data.called /\ output.data.ok)
        => /\ \A i \in DOMAIN output.data.flows :
                 LET sum == ExactOffset(document, output.data.flows[i].sourceLayerId)
                 IN  /\ output.data.flows[i].sourceRect.x = Round2(sum.x)
                     /\ output.data.flows[i].sourceRect.y = Round2(sum.y)
           /\ NestingInvariant

\* a flow was extracted whose source lies in a group of offset (0, 0) that
\* lies in another group, with a sum that rounding changes
C26_Witness ==
    /\ output.data.called
    /\ output.data.ok
    /\ \E i \in DOMAIN output.data.flows :
          LET n == output.data.flows[i].sourceLayerId
              g == document.layer[n].parent
          IN  /\ ZeroGroup(document, g)
              /\ document.layer[g].parent \in Nodes
              /\ ~ArtboardLike(document, document.layer[g].parent)
              /\ ExactOffset(document, n).x # Round2(ExactOffset(document, n).x)

\* the document contains an artboard or symbol master with this id
HasArtboard(doc, id) ==
    /\ id \in Nodes
    /\ ArtboardLike(doc, id)
    /\ findLayerById(doc, id) = id

\* C27: an extractArtboardData or exportArtboard call for an id under which
\* the document holds no artboard or symbol master is answered with the
\* not-found error for that id
C27_MissingArtboardNotFound ==
    [][/\ (output'.data # output.data /\ ~HasArtboard(document, output'.data.artboardId))
            => output'.data = NotFound(output'.data.artboardId)
       /\ (output'.image # output.image /\ ~HasArtboard(document, output'.image.artboardId))
            => output'.image = NotFound(output'.image.artboardId)]_vars

\* C28: an image render exports the requested artboard at the scale the
\* settings hold
C28_ExportAtRequestedScale ==
    [][(output'.image # output.image /\ output'.image.ok)
          => /\ output'.image.exported = output'.image.artboardId
             /\ output'.image.scale = getExportScale(Ex)]_vars

\* the enabled entries of a list of a style, in order
EnabledOf(list) == SelectSeq(list, LAMBDA e : e.enabled)

\* the extracted list has one entry for each enabled entry of the input, in
\* the order of the input
SameOrder(out, list) == Len(out) = Len(EnabledOf(list))

\* C29: the extracted fills are the enabled fills of the style, in order,
\* each with its color and kind; so are the borders, the shadows and the
\* inner shadows
C29_EnabledEntriesInOrder ==
    (output.style.called /\ ~output.style.value.null) =>
        LET style == document.layer[output.style.layerId].style
            out == output.style.value
        IN  /\ SameOrder(out.fills, style.fills)
            /\ \A i \in 1..Len(out.fills) :
                  /\ out.fills[i].color = EnabledOf(style.fills)[i].color
                  /\ out.fills[i].fillType = EnabledOf(style.fills)[i].fillType
            /\ SameOrder(out.borders, style.borders)
            /\ \A i \in 1..Len(out.borders) :
                  /\ out.borders[i].color = EnabledOf(style.borders)[i].color
                  /\ out.borders[i].fillType = EnabledOf(style.borders)[i].fillType
            /\ SameOrder(out.shadows, style.shadows)
            /\ \A i \in 1..Len(out.shadows) :
                  out.shadows[i].color = EnabledOf(style.shadows)[i].color
            /\ SameOrder(out.innerShadows, style.innerShadows)
            /\ \A i \in 1..Len(out.innerShadows) :
                  out.innerShadows[i].color = EnabledOf(style.innerShadows)[i].color

\* a style of two fills, the first disabled, is extracted to the one fill
\* that is enabled
C29_Witness ==
    /\ output.style.called
    /\ ~output.style.value.null
    /\ LET style == document.layer[output.style.layerId].style
       IN  /\ Len(style.fills) = 2
           /\ ~style.fills[1].enabled
           /\ style.fills[2].enabled
           /\ style.fills[1].color # style.fills[2].color
           /\ Len(output.style.value.fills) = 1
           /\ output.style.value.fills[1].color = style.fills[2].color
           /\ output.style.value.fills[1].fillType = style.fills[2].fillType

\* C30: a call of setQueueItemStatus with an id, a status and an error
\* writes that status and error to the queue items of that id and changes
\* no other item and no other field of the publish state; without an item
\* of that id the publish state stays as it was
C30_OnlyMatchingItemsChange ==
    [][\E artboardId \in Artboards, status \in ArtboardStatuses, error \in ErrorInputs :
          LET old == publishState.queue
              new == publishState'.queue
          IN  /\ Len(new) = Len(old)
              /\ \A i \in 1..Len(old) :
                    IF old[i].id = artboardId
                    THEN /\ new[i].id = artboardId
                         /\ new[i].status = status
                         /\ new[i].error = error
                    ELSE new[i] = old[i]
              /\ [publishState' EXCEPT !.queue = old] = publishState
              /\ (\A i \in 1..Len(old) : old[i].id # artboardId)
                    => publishState' = publishState]_vars

\* one item of a queue of two has failed with an error in a running
\* publish, the other item is as it was
C30_Witness ==
    /\ publishState.isPublishing
    /\ Len(publishState.queue) = 2
    /\ publishState.queue[1].id # publishState.queue[2].id
    /\ publishState.queue[1].status = "failed"
    /\ publishState.queue[1].error # NoError
    /\ publishState.queue[2] = [id |-> publishState.queue[2].id, status |-> "queued",
                                error |-> NoError]

\* C34: the active count of every run's semaphore stays between 0 and the
\* limit, which it does only if no release function is invoked twice
C34_ActiveWithinLimit ==
    \A r \in Runs : runs[r].semActive \in 0..CONCURRENCY

\* the run whose startPublish call is the latest
LatestRun == runCount

\* a step in which code of run r writes to the publish store: one of its
\* items enters a stage, is marked done or failed, or its main sequence
\* writes a step
WritesStore(r) ==
    \/ \E a \in Artboards :
          LET c == TaskCaller(r, a)
          IN  /\ tasks'[c].pc # tasks[c].pc
              /\ \/ tasks'[c].pc \in {"awaitData", "awaitUpload", "threw"}
                 \/ tasks'[c].pc = "awaitImage" /\ tasks[c].pc = "awaitData"
                 \/ tasks'[c].pc = "returned" /\ tasks[c].pc = "awaitUpload"
    \/ /\ runs'[r].pc # runs[r].pc
       /\ runs'[r].pc \in {"endedFailed", "awaitTokens", "awaitFinalize", "endedDone"}

\* a step in which run r sends an upload or the finalize call
IssuesUploadOrFinalize(r) ==
    \E call \in httpCalls' \ httpCalls :
        call.run = r /\ call.kind \in {"upload", "finalize"}

\* C35: once a later startPublish has begun, an earlier run writes nothing
\* to the publish store and sends no upload and no finalize call
C35_OnlyLatestRunWrites ==
    [][\A r \in Runs :
          r < LatestRun => ~WritesStore(r) /\ ~IssuesUploadOrFinalize(r)]_vars

\* C36: from handleCancel to the next startPublish, that is while the
\* current controller is aborted, the publish store holds its default state
C36_StoreStaysDefaultAfterCancel ==
    Aborted(St) => publishState = defaultPublishState

\* the rows of the publish queue that are not done
RowsNotDone == {i \in DOMAIN publishState.queue : publishState.queue[i].status # "done"}

\* C37: when the step is done every row of the queue is done, and the
\* finalize call of a run is sent only when every row of the queue is done
C37_DoneMeansAllRowsDone ==
    /\ [](publishState.step = "done" => RowsNotDone = {})
    /\ [][\A r \in Runs :
             (\E call \in httpCalls' \ httpCalls : call.run = r /\ call.kind = "finalize")
                 => \A i \in DOMAIN publishState'.queue :
                       publishState'.queue[i].status = "done"]_vars

\* the flow edges extracted for the layer of a Layer Node
EdgesFrom(node) ==
    SelectSeq(output.data.flows, LAMBDA e : e.sourceLayerId = node.id)

\* C39: for every Layer Node whose layer carries a flow, the flow summary
\* and the flow edge of the layer have the same back flag and, unless they
\* lead back, the same target id; every flow edge either leads back with
\* the target '__back__' or has a concrete target
C39_SummaryAgreesWithEdge ==
    (output.data.called /\ output.data.ok) =>
        /\ \A node \in LayerNodes(output.data.layers) :
              document.layer[node.id].flow.defined =>
                  LET summary == extractLayerFlow(document, node.id)
                      edges == EdgesFrom(node)
                  IN  \A i \in DOMAIN edges :
                         /\ edges[i].isBackAction = summary.isBackAction
                         /\ ~edges[i].isBackAction
                               => edges[i].targetArtboardId = ToString(summary.targetId)
        /\ \A i \in DOMAIN output.data.flows :
              LET e == output.data.flows[i]
              IN  IF e.isBackAction
                  THEN e.targetArtboardId = BackId
                  ELSE e.targetArtboardId \notin {BackId, ToString(None)}

\* the artboards and symbol masters that lie on the page of a document
TopLevelArtboards(doc) ==
    {n \in SeqToSet(layers(doc, Page)) : ArtboardLike(doc, n)}

\* a step in which a handler has called buildArtboardMap
IndexEnsured ==
    \/ output'.data # output.data
    \/ output'.image # output.image
    \/ cachedDocData' # cachedDocData

\* C33: the index holds artboards and symbol masters only; buildArtboardMap
\* after invalidateCache, or for a document whose id is not the cached id,
\* leaves exactly the artboards and symbol masters of the page of the
\* current document in the index
C33_IndexRebuiltExactly ==
    /\ [](artboardMap \subseteq {n \in Nodes : ArtboardLike(document, n)})
    /\ [](buildArtboardMap(invalidateCache(Ex)).artboardMap = TopLevelArtboards(document))
    /\ [](cachedDocId # document.id
            => buildArtboardMap(Ex).artboardMap = TopLevelArtboards(document))
    /\ [][(cachedDocId # document.id /\ IndexEnsured)
             => /\ artboardMap' = TopLevelArtboards(document')
                /\ cachedDocId' = document'.id]_vars

\* the index was rebuilt for the second document, which has a shape next to
\* its artboards on the page
C33_Witness ==
    /\ document.id = OtherDocId
    /\ cachedDocId = OtherDocId
    /\ document.layer[NumNodes].parent = Page
    /\ artboardMap # {}
    /\ artboardMap = TopLevelArtboards(document)
    /\ output.data.called

\* the request of caller c holds the entry of its map under its key
OwnsEntry(c) == St[MapVar(futures[c].map)][futures[c].key] = c

\* the timer of caller c fires in this step
TimerFires(c) == c \in timers /\ futures[c].state = "pending" /\ futures'[c].state = "timeout"

\* C40: a timer is armed only while its request is pending and holds the
\* entry under its key, and when it fires no other request changes: the
\* other pending requests stay pending and keep their entries
C40_TimerTouchesOwnEntryOnly ==
    /\ [](\A c \in timers : futures[c].state = "pending" /\ OwnsEntry(c))
    /\ [][\A c \in Callers :
             TimerFires(c) =>
                 \A d \in Callers \ {c} :
                    (futures[d].state = "pending" /\ OwnsEntry(d))
                        => /\ futures'[d] = futures[d]
                           /\ St'[MapVar(futures[d].map)][futures[d].key] = d
                           /\ d \in timers']_vars

\* a request was superseded and later the timer of the newer request under
\* the same key has fired
C40_Witness ==
    \E c, d \in Callers :
        /\ c # d
        /\ futures[c].map = futures[d].map
        /\ futures[c].key = futures[d].key
        /\ futures[c].state = "superseded"
        /\ futures[d].state = "timeout"
        /\ c \notin timers
        /\ \E e \in Callers \ {c, d} : futures[e].state = "pending" /\ OwnsEntry(e)

\* the promise of acquirer a has been resolved with a release function and
\* its callback has not run yet
Admitted(a) ==
    \E i \in DOMAIN microQ :
        microQ[i].kind = "acquired" /\ microQ[i].who = TaskCaller(TheSemaphore, a)

\* C32: the semaphore admits its waiters in the order of their acquire
\* calls: a step admits at most one caller; a caller is admitted from the
\* head of the queue, or without waiting only when nobody waits; and the
\* queue changes only by losing its head or by a new caller joining its end
C32_WaitersAdmittedInOrder ==
    [][LET queue == runs[TheSemaphore].semQueue
           after == runs'[TheSemaphore].semQueue
           admitted == {a \in Acquirers : Admitted(a)' /\ ~Admitted(a)}
       IN  /\ Cardinality(admitted) <= 1
           /\ \A a \in admitted :
                 IF queue # <<>>
                 THEN a = Head(queue) /\ after = Tail(queue)
                 ELSE after = <<>>
           /\ admitted = {}
                 => \/ after = queue
                    \/ \E a \in Acquirers : after = Append(queue, a)]_vars

\* two callers wait, the one that called first was admitted by a release
\* and the other one still waits
C32_Witness ==
    \E a, b \in Acquirers :
        /\ a # b
        /\ Admitted(a)
        /\ runs[TheSemaphore].semQueue = <<b>>
        /\ runs[TheSemaphore].semActive = CONCURRENCY
        /\ tasks[TaskCaller(TheSemaphore, a)].pc = "waiting"

\* C38: no run writes a percent smaller than the percent it wrote before
C38_PercentNeverDecreases ==
    \A r \in Runs : ~runs[r].decreased

\* a run of at least two artboards has written every percent up to 100
C38_Witness ==
    \E r \in Runs :
        /\ Len(runs[r].queue) >= 2
        /\ runs[r].pc = "endedDone"
        /\ runs[r].lastPercent = 100
        /\ runs[r].completedCount = Len(runs[r].queue)

\* the positions of a run that has stopped: done, failed or cancelled
EndedRunStates == {"endedDone", "endedFailed", "endedAborted"}

\* the positions of an item that holds a slot
HoldsSlot(c) == tasks[c].pc \in {"awaitData", "awaitImage", "sleep", "awaitUpload"}

\* C31: when every request and every HTTP call is answered, an item that
\* waits for a slot gets one, an item that holds a slot ends and gives it
\* back, and a run that has started stops as done, failed or cancelled
C31_EveryItemAndRunEnds ==
    /\ \A c \in Callers : (tasks[c].pc = "waiting") ~> (tasks[c].pc # "waiting")
    /\ \A c \in Callers : HoldsSlot(c) ~> (tasks[c].pc \in {"returned", "threw"})
    /\ \A r \in Runs : (runs[r].pc # "none") ~> (runs[r].pc \in EndedRunStates)

\* an item that had to wait for a slot has ended and its run has stopped
C31_Witness ==
    \E r \in Runs :
        /\ Len(runs[r].queue) > CONCURRENCY
        /\ runs[r].pc \in EndedRunStates
        /\ \A a \in Artboards : tasks[TaskCaller(r, a)].pc \in {"returned", "threw"}
        /\ runs[r].semQueue = <<>>

====
